---- MODULE Spec2Model ----
(***************************************************************************)
(* Model of the statement parser of LiquidSuite                            *)
(* (lsuite/gmail/parsers.py, class PDFParser, Capitec path).               *)
(*                                                                         *)
(* Text representation.  A character is a one-character string, a token is *)
(* a sequence of characters without whitespace, and a stripped piece of    *)
(* text is a sequence of tokens (tokens are separated by one space).  A    *)
(* line is a record [date, toks]: date is <<>> when the line does not      *)
(* begin with a dd/mm/yyyy token, else <<dd, mm, yyyy>>; toks holds the    *)
(* tokens after it.  Amounts are integers in cents.                        *)
(***************************************************************************)
EXTENDS Integers, Sequences, FiniteSets, TLC

\* ------------------------------------------------------------------------
\* Bounds of the model
\* ------------------------------------------------------------------------
\* Largest number of lines of an input text.
MaxLines == 2

\* Largest number of parse_pdf calls on one parser object (SpecRepeat).
MaxCalls == 3

\* ------------------------------------------------------------------------
\* Characters and tokens
\* ------------------------------------------------------------------------
Digits == {"0", "1", "2", "3", "4", "5", "6", "7", "8", "9"}

DigitVal ==
  "0" :> 0 @@ "1" :> 1 @@ "2" :> 2 @@ "3" :> 3 @@ "4" :> 4 @@
  "5" :> 5 @@ "6" :> 6 @@ "7" :> 7 @@ "8" :> 8 @@ "9" :> 9

UpperToLower ==
  "A" :> "a" @@ "B" :> "b" @@ "C" :> "c" @@ "D" :> "d" @@ "E" :> "e" @@
  "F" :> "f" @@ "G" :> "g" @@ "H" :> "h" @@ "I" :> "i" @@ "J" :> "j" @@
  "K" :> "k" @@ "L" :> "l" @@ "M" :> "m" @@ "N" :> "n" @@ "O" :> "o" @@
  "P" :> "p" @@ "Q" :> "q" @@ "R" :> "r" @@ "S" :> "s" @@ "T" :> "t" @@
  "U" :> "u" @@ "V" :> "v" @@ "W" :> "w" @@ "X" :> "x" @@ "Y" :> "y" @@
  "Z" :> "z"

\* str.lower() on one token and on a text.
LowerTok(t) ==
  [k \in 1..Len(t) |-> IF t[k] \in DOMAIN UpperToLower THEN UpperToLower[t[k]] ELSE t[k]]

Lower(s) == [k \in 1..Len(s) |-> LowerTok(s[k])]

\* Character-level prefix, suffix and substring tests on tokens.
IsPrefixTok(a, t) == Len(a) <= Len(t) /\ SubSeq(t, 1, Len(a)) = a

IsSuffixTok(a, t) == Len(a) <= Len(t) /\ SubSeq(t, Len(t) - Len(a) + 1, Len(t)) = a

IsSubTok(a, t) ==
  \E p \in 1..(Len(t) - Len(a) + 1) : SubSeq(t, p, p + Len(a) - 1) = a

\* `kw in s` for a phrase kw of one or more words and a text s: the phrase
\* starts inside one token, covers whole tokens in between and ends inside
\* another token.
InText(kw, s) ==
  \E p \in 1..(Len(s) - Len(kw) + 1) :
    IF Len(kw) = 1
    THEN IsSubTok(kw[1], s[p])
    ELSE /\ IsSuffixTok(kw[1], s[p])
         /\ IsPrefixTok(kw[Len(kw)], s[p + Len(kw) - 1])
         /\ \A k \in 2..(Len(kw) - 1) : s[p + k - 1] = kw[k]

\* str.replace(pat, '') inside one token: the occurrences of pat are removed
\* left to right, without overlap.
RECURSIVE ReplaceFrom(_, _, _)
ReplaceFrom(t, pat, p) ==
  IF p > Len(t) THEN <<>>
  ELSE IF Len(pat) > 0 /\ p + Len(pat) - 1 <= Len(t) /\ SubSeq(t, p, p + Len(pat) - 1) = pat
       THEN ReplaceFrom(t, pat, p + Len(pat))
       ELSE <<t[p]>> \o ReplaceFrom(t, pat, p + 1)

ReplaceTok(t, pat) == ReplaceFrom(t, pat, 1)

\* s.replace(pat, '') on a text, for a pattern without whitespace; the text
\* is then re-split, so a token that became empty disappears.
ReplaceText(s, pat) ==
  LET r == [k \in 1..Len(s) |-> ReplaceTok(s[k], pat)]
  IN SelectSeq(r, LAMBDA t : Len(t) > 0)

\* ------------------------------------------------------------------------
\* Regular expressions of the Capitec scan, on tokens
\* ------------------------------------------------------------------------
\* Number of consecutive digits of t from position p on.
RECURSIVE DigitRun(_, _)
DigitRun(t, p) ==
  IF p <= Len(t) /\ t[p] \in Digits THEN 1 + DigitRun(t, p + 1) ELSE 0

\* (?:,\d{3})* from position p: the position after the last group taken.
RECURSIVE CommaGroups(_, _)
CommaGroups(t, p) ==
  IF p + 3 <= Len(t) /\ t[p] = "," /\ DigitRun(t, p + 1) >= 3
  THEN CommaGroups(t, p + 4)
  ELSE p

\* -?\d{1,3}(?:,\d{3})*\.\d{2} matched from position p of token t: the
\* position of the last character of the match, 0 when there is no match.
AmtEnd(t, p) ==
  LET q == IF p <= Len(t) /\ t[p] = "-" THEN p + 1 ELSE p
      n == DigitRun(t, q)
      r == CommaGroups(t, q + n)
  IN IF /\ n >= 1
        /\ n <= 3
        /\ r + 2 <= Len(t)
        /\ t[r] = "."
        /\ t[r + 1] \in Digits
        /\ t[r + 2] \in Digits
     THEN r + 2
     ELSE 0

\* A token that the trailing-amount patterns accept: \s+(amount)(\s+|\s*$).
IsAmtTok(t) == Len(t) > 0 /\ AmtEnd(t, 1) = Len(t)

\* re.findall of the amount pattern inside one token, from position p.
RECURSIVE FindAmtsFrom(_, _)
FindAmtsFrom(t, p) ==
  IF p > Len(t) THEN <<>>
  ELSE IF AmtEnd(t, p) > 0
       THEN <<SubSeq(t, p, AmtEnd(t, p))>> \o FindAmtsFrom(t, AmtEnd(t, p) + 1)
       ELSE FindAmtsFrom(t, p + 1)

\* re.findall(r'(?:R\s*)?(amount)', text): the captured amounts in order.
RECURSIVE FindAmts(_)
FindAmts(s) ==
  IF s = <<>> THEN <<>> ELSE FindAmtsFrom(Head(s), 1) \o FindAmts(Tail(s))

\* re.search(r'\d+\.\d{2}', text)
HasDecimal(s) ==
  \E k \in 1..Len(s) :
    \E p \in 2..(Len(s[k]) - 2) :
      /\ s[k][p] = "."
      /\ s[k][p - 1] \in Digits
      /\ s[k][p + 1] \in Digits
      /\ s[k][p + 2] \in Digits

\* ------------------------------------------------------------------------
\* parse_amount
\* ------------------------------------------------------------------------
\* The value of a run of digits.
RECURSIVE DigitsVal(_)
DigitsVal(t) ==
  IF t = <<>> THEN 0 ELSE 10 * DigitsVal(SubSeq(t, 1, Len(t) - 1)) + DigitVal[t[Len(t)]]

\* float(t) for a token over digits, '.' and '-': [ok, v] with v in cents.
\* float accepts one leading sign, digits and at most one point, with at
\* least one digit; cents beyond the second decimal are cut (the model's
\* amounts have at most two decimals).
Float(t) ==
  LET neg  == Len(t) > 0 /\ t[1] = "-"
      u    == IF neg THEN Tail(t) ELSE t
      dots == {p \in 1..Len(u) : u[p] = "."}
      dot  == IF dots = {} THEN Len(u) + 1 ELSE CHOOSE p \in dots : TRUE
      ip   == SubSeq(u, 1, dot - 1)
      fp   == SubSeq(u, dot + 1, Len(u))
      ok   == /\ Cardinality(dots) <= 1
              /\ \A p \in 1..Len(u) : u[p] \in Digits \/ u[p] = "."
              /\ Len(ip) + Len(fp) >= 1
      f2   == IF Len(fp) = 0 THEN 0
              ELSE IF Len(fp) = 1 THEN 10 * DigitVal[fp[1]]
              ELSE 10 * DigitVal[fp[1]] + DigitVal[fp[2]]
      mag  == IF ok THEN 100 * DigitsVal(ip) + f2 ELSE 0
  IN [ok |-> ok, v |-> IF neg THEN 0 - mag ELSE mag]

\* parse_amount(amount_str): zero for an empty, '-' or malformed token.
parse_amount(amount_str) ==
  IF amount_str = <<>> \/ amount_str = <<"-">> THEN 0
  ELSE LET cleaned == SelectSeq(amount_str, LAMBDA c : c # ",")
       IN IF cleaned = <<>> THEN 0
          ELSE IF cleaned[1] = "-"
          THEN IF Float(Tail(cleaned)).ok THEN 0 - Float(Tail(cleaned)).v ELSE 0
          ELSE IF Float(cleaned).ok THEN Float(cleaned).v ELSE 0

abs(x) == IF x < 0 THEN 0 - x ELSE x

\* ------------------------------------------------------------------------
\* Static vocabulary of the parser
\* ------------------------------------------------------------------------
\* Strong credit indicators (lower case).
credit_keywords ==
  << <<<<"p", "a", "y", "m", "e", "n", "t">>, <<"r", "e", "c", "e", "i", "v", "e", "d">>>>,
     <<<<"r", "e", "c", "e", "i", "v", "e", "d">>>>,
     <<<<"p", "a", "y", "s", "h", "a", "p">>, <<"p", "a", "y", "m", "e", "n", "t">>, <<"r", "e", "c", "e", "i", "v", "e", "d">>>>,
     <<<<"d", "e", "p", "o", "s", "i", "t">>>>,
     <<<<"i", "n", "t", "e", "r", "e", "s", "t">>>>,
     <<<<"t", "r", "a", "n", "s", "f", "e", "r">>, <<"r", "e", "c", "e", "i", "v", "e", "d">>>>,
     <<<<"r", "e", "f", "u", "n", "d">>>>,
     <<<<"d", "i", "s", "p", "u", "t", "e">>>>,
     <<<<"s", "e", "t", "-", "o", "f", "f">>>>,
     <<<<"r", "e", "c", "e", "i", "v", "e", "d", ":">>>>,
     <<<<"i", "n", "c", "o", "m", "e">>>>,
     <<<<"s", "w", "e", "e", "p">>>> >>

\* Strong debit indicators (lower case).
debit_keywords ==
  << <<<<"p", "u", "r", "c", "h", "a", "s", "e">>>>,
     <<<<"p", "a", "y", "m", "e", "n", "t", ":">>>>,
     <<<<"c", "a", "s", "h">>, <<"s", "e", "n", "t">>>>,
     <<<<"c", "a", "s", "h">>, <<"w", "i", "t", "h", "d", "r", "a", "w", "a", "l">>>>,
     <<<<"p", "r", "e", "p", "a", "i", "d">>, <<"p", "u", "r", "c", "h", "a", "s", "e">>>>,
     <<<<"v", "o", "u", "c", "h", "e", "r">>>>,
     <<<<"d", "e", "b", "i", "t">>, <<"o", "r", "d", "e", "r">>>>,
     <<<<"t", "r", "a", "n", "s", "f", "e", "r">>, <<"t", "o">>>>,
     <<<<"e", "x", "t", "e", "r", "n", "a", "l">>, <<"p", "a", "y", "m", "e", "n", "t">>>>,
     <<<<"i", "m", "m", "e", "d", "i", "a", "t", "e">>, <<"p", "a", "y", "m", "e", "n", "t">>>>,
     <<<<"c", "a", "r", "d">>, <<"r", "e", "p", "l", "a", "c", "e", "m", "e", "n", "t">>>>,
     <<<<"a", "d", "m", "i", "n">>, <<"f", "e", "e">>>>,
     <<<<"w", "i", "t", "h", "d", "r", "a", "w", "a", "l">>>>,
     <<<<"c", "a", "p", "i", "t", "e", "c">>, <<"p", "a", "y">>>>,
     <<<<"f", "e", "e">>>>,
     <<<<"c", "h", "a", "r", "g", "e">>>>,
     <<<<"r", "o", "u", "n", "d", "-", "u", "p">>>> >>

\* Words of a category that imply a credit.
category_credit_words ==
  << <<<<"i", "n", "c", "o", "m", "e">>>>,
     <<<<"i", "n", "t", "e", "r", "e", "s", "t">>>>,
     <<<<"r", "e", "c", "e", "i", "v", "e", "d">>>> >>

\* Words of a category that imply a debit.
category_debit_words ==
  << <<<<"w", "i", "t", "h", "d", "r", "a", "w", "a", "l">>>>,
     <<<<"f", "e", "e", "s">>>>,
     <<<<"p", "a", "y", "m", "e", "n", "t", "s">>>>,
     <<<<"p", "u", "r", "c", "h", "a", "s", "e">>>> >>

\* Mutant of categories: a shorter label that other labels end in comes first.
categories_short_first ==
  << <<<<"I", "n", "c", "o", "m", "e">>>>,
     <<<<"O", "t", "h", "e", "r">>, <<"I", "n", "c", "o", "m", "e">>>>,
     <<<<"T", "r", "a", "n", "s", "f", "e", "r">>>>,
     <<<<"C", "a", "s", "h">>, <<"W", "i", "t", "h", "d", "r", "a", "w", "a", "l">>>>,
     <<<<"C", "e", "l", "l", "p", "h", "o", "n", "e">>>>,
     <<<<"F", "e", "e", "s">>>> >>

\* The category vocabulary, in the order extract_category tries it.
categories ==
  << <<<<"O", "t", "h", "e", "r">>, <<"I", "n", "c", "o", "m", "e">>>>,
     <<<<"I", "n", "v", "e", "s", "t", "m", "e", "n", "t">>, <<"I", "n", "c", "o", "m", "e">>>>,
     <<<<"T", "r", "a", "n", "s", "f", "e", "r">>>>,
     <<<<"C", "a", "s", "h">>, <<"W", "i", "t", "h", "d", "r", "a", "w", "a", "l">>>>,
     <<<<"D", "i", "g", "i", "t", "a", "l">>, <<"P", "a", "y", "m", "e", "n", "t", "s">>>>,
     <<<<"C", "e", "l", "l", "p", "h", "o", "n", "e">>>>,
     <<<<"G", "r", "o", "c", "e", "r", "i", "e", "s">>>>,
     <<<<"T", "a", "k", "e", "a", "w", "a", "y", "s">>>>,
     <<<<"O", "n", "l", "i", "n", "e">>, <<"S", "t", "o", "r", "e">>>>,
     <<<<"F", "u", "r", "n", "i", "t", "u", "r", "e">>, <<"&">>, <<"A", "p", "p", "l", "i", "a", "n", "c", "e", "s">>>>,
     <<<<"U", "n", "c", "a", "t", "e", "g", "o", "r", "i", "s", "e", "d">>>>,
     <<<<"I", "n", "v", "e", "s", "t", "m", "e", "n", "t", "s">>>>,
     <<<<"S", "a", "v", "i", "n", "g", "s">>>>,
     <<<<"F", "e", "e", "s">>>>,
     <<<<"I", "n", "t", "e", "r", "e", "s", "t">>>>,
     <<<<"A", "l", "c", "o", "h", "o", "l">>>>,
     <<<<"O", "t", "h", "e", "r">>, <<"P", "e", "r", "s", "o", "n", "a", "l">>, <<"&">>, <<"F", "a", "m", "i", "l", "y">>>>,
     <<<<"T", "r", "a", "n", "s", "f", "e", "r", "s">>>> >>

\* Phrases that mark a header line (case sensitive).
header_phrases ==
  << <<<<"T", "r", "a", "n", "s", "a", "c", "t", "i", "o", "n">>, <<"H", "i", "s", "t", "o", "r", "y">>>>,
     <<<<"M", "o", "n", "e", "y">>, <<"I", "n">>>>,
     <<<<"M", "o", "n", "e", "y">>, <<"O", "u", "t">>>>,
     <<<<"D", "a", "t", "e">>, <<"D", "e", "s", "c", "r", "i", "p", "t", "i", "o", "n">>, <<"C", "a", "t", "e", "g", "o", "r", "y">>>>,
     <<<<"*">>, <<"I", "n", "c", "l", "u", "d", "e", "s">>, <<"V", "A", "T">>>>,
     <<<<"S", "p", "e", "n", "d", "i", "n", "g">>, <<"S", "u", "m", "m", "a", "r", "y">>>>,
     <<<<"F", "e", "e">>, <<"S", "u", "m", "m", "a", "r", "y">>>> >>


\* ------------------------------------------------------------------------
\* is_credit_transaction and extract_category
\* ------------------------------------------------------------------------
\* Python's None, as a value no stripped text equals.
None == << <<>> >>

\* (category or '').lower()
CatLower(category) == IF category = None \/ category = <<>> THEN <<>> ELSE Lower(category)

\* any(kw in text for kw in keywords)
AnyIn(keywords, text) == \E k \in 1..Len(keywords) : InText(keywords[k], text)

\* Mutant of is_credit_transaction: the final `return False` is missing, so
\* the function returns None when no rule fires.
is_credit_no_default(description, category) ==
  LET desc_lower == Lower(description)
      cat_lower  == CatLower(category)
  IN IF AnyIn(credit_keywords, desc_lower) THEN "True"
     ELSE IF AnyIn(debit_keywords, desc_lower) THEN "False"
     ELSE IF AnyIn(category_credit_words, cat_lower) THEN "True"
     ELSE IF AnyIn(category_debit_words, cat_lower) THEN "False"
     ELSE "None"

\* Mutant of is_credit_transaction: the debit keywords are tried first.
is_credit_debit_first(description, category) ==
  LET desc_lower == Lower(description)
      cat_lower  == CatLower(category)
  IN IF AnyIn(debit_keywords, desc_lower) THEN "False"
     ELSE IF AnyIn(credit_keywords, desc_lower) THEN "True"
     ELSE IF AnyIn(category_credit_words, cat_lower) THEN "True"
     ELSE IF AnyIn(category_debit_words, cat_lower) THEN "False"
     ELSE "False"

\* is_credit_transaction(description, category): "True" or "False", the
\* value the function returns.
is_credit_transaction(description, category) ==
  LET desc_lower == Lower(description)
      cat_lower  == CatLower(category)
  IN IF AnyIn(credit_keywords, desc_lower) THEN "True"
     ELSE IF AnyIn(debit_keywords, desc_lower) THEN "False"
     ELSE IF AnyIn(category_credit_words, cat_lower) THEN "True"
     ELSE IF AnyIn(category_debit_words, cat_lower) THEN "False"
     ELSE "False"

\* 'credit' if is_credit else 'debit'
TypeOf(is_credit) == IF is_credit = "True" THEN "credit" ELSE "debit"

\* text_str.endswith(cat)
EndsWith(text_str, cat) ==
  /\ Len(text_str) >= Len(cat)
  /\ IsSuffixTok(cat[1], text_str[Len(text_str) - Len(cat) + 1])
  /\ \A k \in 2..Len(cat) : text_str[Len(text_str) - Len(cat) + k] = cat[k]

\* text_str[:-(len(cat))].strip(), for a text that ends with cat.
CutSuffix(text_str, cat) ==
  LET at   == Len(text_str) - Len(cat) + 1
      rest == SubSeq(text_str[at], 1, Len(text_str[at]) - Len(cat[1]))
  IN SubSeq(text_str, 1, at - 1) \o (IF rest = <<>> THEN <<>> ELSE <<rest>>)

\* extract_category(text_str): <<description, category>>; the first entry of
\* the list that the text ends with is split off.
extract_category(text_str) ==
  LET hits == {k \in 1..Len(categories) : EndsWith(text_str, categories[k])}
  IN IF hits = {} THEN <<text_str, None>>
     ELSE LET k == CHOOSE h \in hits : \A g \in hits : h <= g
          IN <<CutSuffix(text_str, categories[k]), categories[k]>>

\* ------------------------------------------------------------------------
\* Dates
\* ------------------------------------------------------------------------
IsLeap(y) == (y % 4 = 0 /\ y % 100 # 0) \/ y % 400 = 0

DaysInMonth(y, m) ==
  IF m = 2 THEN (IF IsLeap(y) THEN 29 ELSE 28)
  ELSE IF m \in {4, 6, 9, 11} THEN 30 ELSE 31

RECURSIVE DaysBeforeMonth(_, _)
DaysBeforeMonth(y, m) ==
  IF m <= 1 THEN 0 ELSE DaysBeforeMonth(y, m - 1) + DaysInMonth(y, m - 1)

\* date(y, m, d).toordinal()
toordinal(y, m, d) ==
  365 * (y - 1) + ((y - 1) \div 4) - ((y - 1) \div 100) + ((y - 1) \div 400)
    + DaysBeforeMonth(y, m) + d

\* datetime.strptime(date_str, '%d/%m/%Y').date() for a token <<dd, mm, yyyy>>:
\* [ok, ord]; ok is FALSE where strptime raises ValueError.
strptime(date_str) ==
  LET d == date_str[1]
      m == date_str[2]
      y == date_str[3]
      ok == y >= 1 /\ m >= 1 /\ m <= 12 /\ d >= 1 /\ d <= DaysInMonth(y, m)
  IN [ok |-> ok, ord |-> IF ok THEN toordinal(y, m, d) ELSE 0]

\* ------------------------------------------------------------------------
\* Records
\* ------------------------------------------------------------------------
\* The text " (Fee)" that marks a fee record's description.
FeeMarker == <<"(", "F", "e", "e", ")">>

FeesCategory == << <<"F", "e", "e", "s">> >>

\* Mutant of Reference: the sequence number is left out of the reference.
ReferenceOfDate(trans_date, n, is_fee) ==
  [bank |-> "CAP", date |-> trans_date, seq |-> 0, fee |-> is_fee]

\* f"CAP-{trans_date.strftime('%Y%m%d')}-{len(transactions):04d}" and its
\* "-FEE" variant: the parts the string is built from.
Reference(trans_date, n, is_fee) ==
  [bank |-> "CAP", date |-> trans_date, seq |-> n, fee |-> is_fee]

\* The principal record appended to a list of n records.
MainRecord(trans_date, description, trans_amount, category, fee, balance, n) ==
  [date        |-> trans_date,
   description |-> description,
   amount      |-> abs(trans_amount),
   type        |-> TypeOf(is_credit_transaction(description, category)),
   reference   |-> Reference(trans_date, n, FALSE),
   category    |-> category,
   fee         |-> fee,
   balance     |-> balance]

\* Mutant of FeeRecord: the fee is taken off the balance of the fee record.
FeeRecordLowerBalance(trans_date, description, fee, balance, n) ==
  [date        |-> trans_date,
   description |-> Append(description, FeeMarker),
   amount      |-> fee,
   type        |-> "debit",
   reference   |-> Reference(trans_date, n, TRUE),
   category    |-> FeesCategory,
   fee         |-> 0,
   balance     |-> balance - fee]

\* The fee record appended to a list of n records.
FeeRecord(trans_date, description, fee, balance, n) ==
  [date        |-> trans_date,
   description |-> Append(description, FeeMarker),
   amount      |-> fee,
   type        |-> "debit",
   reference   |-> Reference(trans_date, n, TRUE),
   category    |-> FeesCategory,
   fee         |-> 0,
   balance     |-> balance]

\* if abs(trans_amount) > 0: transactions.append({...})
AppendMain(trs, trans_date, description, trans_amount, category, fee, balance) ==
  IF abs(trans_amount) > 0
  THEN Append(trs, MainRecord(trans_date, description, trans_amount, category, fee, balance, Len(trs)))
  ELSE trs

\* if fee > 0: transactions.append({... fee record ...})
AppendFee(trs, trans_date, description, fee, balance) ==
  IF fee > 0
  THEN Append(trs, FeeRecord(trans_date, description, fee, balance, Len(trs)))
  ELSE trs

\* ------------------------------------------------------------------------
\* _sort_by_balance
\* ------------------------------------------------------------------------
\* Mutant of sort_key: the balance is left out of the key.
sort_key_date_only(x) == <<0 - x.date, 0>>

\* Mutant of sort_key: the date is not negated, so the oldest date comes first.
sort_key_oldest_first(x) == <<x.date, x.balance>>

\* The sort key: newest date first, then lowest balance first.
sort_key(x) == <<0 - x.date, x.balance>>

KeyLeq(a, b) == a[1] < b[1] \/ (a[1] = b[1] /\ a[2] <= b[2])

\* Mutant of InsertSorted: x is placed in front of the records with an equal
\* key, so the sort is not stable.
RECURSIVE InsertSortedUnstable(_, _)
InsertSortedUnstable(s, x) ==
  IF s = <<>> THEN <<x>>
  ELSE IF KeyLeq(sort_key(Head(s)), sort_key(x)) /\ sort_key(Head(s)) # sort_key(x)
       THEN <<Head(s)>> \o InsertSortedUnstable(Tail(s), x)
       ELSE <<x>> \o s

\* x placed behind every record whose key is not greater (sorted() is stable).
RECURSIVE InsertSorted(_, _)
InsertSorted(s, x) ==
  IF s = <<>> THEN <<x>>
  ELSE IF KeyLeq(sort_key(Head(s)), sort_key(x))
       THEN <<Head(s)>> \o InsertSorted(Tail(s), x)
       ELSE <<x>> \o s

RECURSIVE sorted(_)
sorted(s) ==
  IF s = <<>> THEN <<>>
  ELSE InsertSorted(sorted(SubSeq(s, 1, Len(s) - 1)), s[Len(s)])

\* Mutant of _sort_by_balance: of the records with one date and balance only
\* the first is kept.
RECURSIVE OnePerKey(_)
OnePerKey(s) ==
  IF Len(s) <= 1 THEN s
  ELSE LET front == OnePerKey(SubSeq(s, 1, Len(s) - 1))
       IN IF sort_key(s[Len(s)]) = sort_key(s[Len(s) - 1]) THEN front
          ELSE Append(front, s[Len(s)])

_sort_by_balance_one_per_key(trs) == OnePerKey(sorted(trs))

_sort_by_balance(trs) == IF trs = <<>> THEN trs ELSE sorted(trs)

\* ------------------------------------------------------------------------
\* Input texts
\* ------------------------------------------------------------------------
\* Words and numbers the input lines are written with.
W_Prepaid == <<"P", "r", "e", "p", "a", "i", "d">>

W_Purchase == <<"P", "u", "r", "c", "h", "a", "s", "e">>

W_Cellphone == <<"C", "e", "l", "l", "p", "h", "o", "n", "e">>

W_Cash == <<"C", "a", "s", "h">>

W_Withdrawal == <<"W", "i", "t", "h", "d", "r", "a", "w", "a", "l">>

W_Card == <<"C", "a", "r", "d">>

W_Fee == <<"F", "e", "e">>

W_Payment == <<"P", "a", "y", "m", "e", "n", "t">>

W_ReceivedColon == <<"R", "e", "c", "e", "i", "v", "e", "d", ":">>

W_Invoice == <<"I", "n", "v", "o", "i", "c", "e">>

W_44 == <<"4", "4">>

W_Salary == <<"S", "a", "l", "a", "r", "y">>

W_Other == <<"O", "t", "h", "e", "r">>

W_Income == <<"I", "n", "c", "o", "m", "e">>

W_Transfer == <<"T", "r", "a", "n", "s", "f", "e", "r">>

W_Recurring == <<"R", "e", "c", "u", "r", "r", "i", "n", "g">>

W_Insufficient == <<"I", "n", "s", "u", "f", "f", "i", "c", "i", "e", "n", "t">>

W_Funds == <<"F", "u", "n", "d", "s">>

W_RefNo == <<"(", "1", "6", "9", "1", "6", "0", "7", "0", ")">>

W_Transaction == <<"T", "r", "a", "n", "s", "a", "c", "t", "i", "o", "n">>

W_History == <<"H", "i", "s", "t", "o", "r", "y">>

W_Interest == <<"I", "n", "t", "e", "r", "e", "s", "t">>

N_0_00 == <<"0", ".", "0", "0">>

N_7_50 == <<"7", ".", "5", "0">>

N_10_00 == <<"1", "0", ".", "0", "0">>

N_20_00 == <<"2", "0", ".", "0", "0">>

N_85_00 == <<"8", "5", ".", "0", "0">>

N_150_00 == <<"1", "5", "0", ".", "0", "0">>

N_320_55 == <<"3", "2", "0", ".", "5", "5">>

N_400_00 == <<"4", "0", "0", ".", "0", "0">>

N_500_00 == <<"5", "0", "0", ".", "0", "0">>

N_1c200_00 == <<"1", ",", "2", "0", "0", ".", "0", "0">>

N_4c000_00 == <<"4", ",", "0", "0", "0", ".", "0", "0">>

N_4c320_55 == <<"4", ",", "3", "2", "0", ".", "5", "5">>

N_5c200_00 == <<"5", ",", "2", "0", "0", ".", "0", "0">>

N_4000_00 == <<"4", "0", "0", "0", ".", "0", "0">>

N_4320_55 == <<"4", "3", "2", "0", ".", "5", "5">>

D20 == <<20, 10, 2025>>

D21 == <<21, 10, 2025>>

D22 == <<22, 10, 2025>>

\* 31 February: matches the date pattern, strptime raises ValueError.
DBad == <<31, 2, 2025>>

NoDate == <<>>

Line(date, toks) == [date |-> date, toks |-> toks]

\* 21/10/2025 Prepaid Purchase Cellphone 150.00 0.00 4320.55
l_three_plain == Line(D21, <<W_Prepaid, W_Purchase, W_Cellphone, N_150_00, N_0_00, N_4320_55>>)

\* 21/10/2025 Prepaid Purchase Cellphone 150.00 0.00 4,320.55
l_three == Line(D21, <<W_Prepaid, W_Purchase, W_Cellphone, N_150_00, N_0_00, N_4c320_55>>)

\* 21/10/2025 Cash Withdrawal 500.00 7.50 4000.00 Cash Withdrawal
l_fee_then_category == Line(D21, <<W_Cash, W_Withdrawal, N_500_00, N_7_50, N_4000_00, W_Cash, W_Withdrawal>>)

\* 21/10/2025 Cash Withdrawal Cash Withdrawal 500.00 7.50 4,000.00
l_fee == Line(D21, <<W_Cash, W_Withdrawal, W_Cash, W_Withdrawal, N_500_00, N_7_50, N_4c000_00>>)

\* 21/10/2025 Card Fee 0.00 7.50 400.00
l_fee_only == Line(D21, <<W_Card, W_Fee, N_0_00, N_7_50, N_400_00>>)

\* 20/10/2025 Payment Received: Invoice 44 1,200.00 5,200.00
l_received == Line(D20, <<W_Payment, W_ReceivedColon, W_Invoice, W_44, N_1c200_00, N_5c200_00>>)

\* 20/10/2025 Salary Other Income 85.00 320.55
l_income == Line(D20, <<W_Salary, W_Other, W_Income, N_85_00, N_320_55>>)

\* 22/10/2025 Cash Withdrawal
l_anchor == Line(D22, <<W_Cash, W_Withdrawal>>)

\* 500.00 7.50 400.00
l_amounts == Line(NoDate, <<N_500_00, N_7_50, N_400_00>>)

\* 22/10/2025 Transfer 10.00
l_single == Line(D22, <<W_Transfer, N_10_00>>)

\* Transaction History
l_header == Line(NoDate, <<W_Transaction, W_History>>)

l_empty == Line(NoDate, <<>>)

\* 21/10/2025 Recurring Transfer Insufficient Funds (16916070)
l_notification == Line(D21, <<W_Recurring, W_Transfer, W_Insufficient, W_Funds, W_RefNo>>)

\* 31/02/2025 Purchase 10.00 20.00
l_bad_date == Line(DBad, <<W_Purchase, N_10_00, N_20_00>>)

\* Interest
l_text == Line(NoDate, <<W_Interest>>)

LineSet ==
  {l_three_plain, l_three, l_fee_then_category, l_fee, l_fee_only, l_received,
   l_income, l_anchor, l_amounts, l_single, l_header, l_empty, l_notification,
   l_bad_date, l_text}

\* text.split('\n') of the input texts: one to MaxLines lines.
RECURSIVE SeqsUpTo(_, _)
SeqsUpTo(S, n) ==
  IF n = 0 THEN {<<>>}
  ELSE LET shorter == SeqsUpTo(S, n - 1)
       IN shorter \cup {Append(s, x) : s \in {t \in shorter : Len(t) = n - 1}, x \in S}

Texts == SeqsUpTo(LineSet, MaxLines) \ {<<>>}

\* ------------------------------------------------------------------------
\* State
\* ------------------------------------------------------------------------
VARIABLES
  lines,         \* text.split('\n') of the statement being parsed
  i,             \* the scan index of _parse_capitec_improved (0-based)
  transactions,  \* the list the scan appends to
  pc,            \* "idle", "scan" (inside the while loop) or "done"
  result,        \* the list parse_pdf returned
  win,           \* the window the scan handled last, what it emitted and logged
  warnings,      \* number of logger.warning entries of the call
  calls,         \* the finished parse_pdf calls: [text, result]
  fn_op,         \* SpecFn: the function applied last ("none" before any)
  fn_arg,        \* SpecFn: the arguments [description, category]
  fn_ret,        \* SpecFn: the value the function returned
  fn_ret2,       \* SpecFn: the value of extract_category on its own output
  bank_name,     \* the bank identifier parse_pdf was called with
  doc,           \* the PDF document parse_pdf was given
  raised,        \* the exception parse_pdf ended with (NoException: none)
  parked,        \* the locals of the parse_pdf call that is not running
  threads,       \* SpecThreads: each thread's parse_pdf call and its position
  self_transactions  \* SpecThreads: self.transactions of each parser object

scanvars == <<lines, i, transactions, pc, result, win, warnings, calls>>

fnvars == <<fn_op, fn_arg, fn_ret, fn_ret2>>

\* The call: its bank identifier, the document it was given, the exception
\* it raised and the locals of a second call that is not running.
callvars == <<bank_name, doc, raised, parked, threads, self_transactions>>

vars == <<scanvars, fnvars, callvars>>

\* A readable document without encryption, read with PyPDF2.
PlainDoc == [library |-> "PyPDF2", readable |-> TRUE, is_encrypted |-> FALSE, password |-> "none"]

\* No exception, and no second call.
NoException == [type |-> "none", message |-> ""]

NoCall == <<>>

\* No thread is running parse_pdf, and no parser object is shared.
NoThreads == <<>>

NoWin ==
  [kind |-> "none", line |-> 0, date |-> 0, desc_and_cat |-> <<>>,
   description |-> <<>>, category |-> None, trans_amount |-> 0, fee |-> 0,
   balance |-> 0, first |-> 0, count |-> 0, logged |-> 0]

Window(kind, at, date, desc_and_cat, description, category, trans_amount, fee, balance, before, after) ==
  [kind |-> kind, line |-> at, date |-> date, desc_and_cat |-> desc_and_cat,
   description |-> description, category |-> category,
   trans_amount |-> trans_amount, fee |-> fee, balance |-> balance,
   first |-> Len(before), count |-> Len(after) - Len(before),
   logged |-> Len(after) - Len(before)]

\* ------------------------------------------------------------------------
\* The line tests of the scan loop
\* ------------------------------------------------------------------------
\* The stripped line as tokens; the date token holds no letter.
LineText(l) == IF l.date = NoDate THEN l.toks ELSE << <<"/">> >> \o l.toks

\* 'Page ' in line and ' of ' in line
IsPageLine(s) ==
  /\ \E p \in 1..(Len(s) - 1) : IsSuffixTok(<<"P", "a", "g", "e">>, s[p])
  /\ \E p \in 2..(Len(s) - 1) : s[p] = <<"o", "f">>

\* The lines the loop skips before it looks for a date.
is_header(l) ==
  LET s == LineText(l)
  IN \/ s = <<>>
     \/ \E k \in 1..Len(header_phrases) : InText(header_phrases[k], s)
     \/ IsPageLine(s)

\* re.match(r'^(\d{2}/\d{2}/\d{4})\s+(.+)', line)
date_match(l) == l.date # NoDate /\ l.toks # <<>>

\* re.match(r'^\d{2}/\d{2}/\d{4}', next_line)
starts_with_date(l) == l.date # NoDate

\* A notification line without amounts.
is_notification(rest_of_line) ==
  /\ \/ InText(<< <<"i", "n", "s", "u", "f", "f", "i", "c", "i", "e", "n", "t">>,
                  <<"f", "u", "n", "d", "s">> >>, Lower(rest_of_line))
     \/ InText(<< <<"a", "u", "t", "h", "e", "n", "t", "i", "c", "a", "t", "i", "o", "n">>,
                  <<"f", "e", "e">> >>, Lower(rest_of_line))
  /\ ~HasDecimal(rest_of_line)

\* Pattern 1: (.+?)\s+amount\s+amount\s+amount\s*$
pattern_3amt(rest_of_line) ==
  /\ Len(rest_of_line) >= 4
  /\ \A k \in (Len(rest_of_line) - 2)..Len(rest_of_line) : IsAmtTok(rest_of_line[k])

\* Pattern 2: (.+?)\s+amount\s+amount\s*$
pattern_2amt(rest_of_line) ==
  /\ Len(rest_of_line) >= 3
  /\ \A k \in (Len(rest_of_line) - 1)..Len(rest_of_line) : IsAmtTok(rest_of_line[k])

\* ^amount(?:\s+amount)?(?:\s+amount)? on a line that starts with no date.
amounts_match(l) == l.toks # <<>> /\ AmtEnd(l.toks[1], 1) > 0

\* The three groups of amounts_match; <<>> for a group that did not take part.
amount_groups(l) ==
  LET t  == l.toks
      e1 == AmtEnd(t[1], 1)
      g2 == e1 = Len(t[1]) /\ Len(t) >= 2 /\ AmtEnd(t[2], 1) > 0
      g3 == g2 /\ AmtEnd(t[2], 1) = Len(t[2]) /\ Len(t) >= 3 /\ AmtEnd(t[3], 1) > 0
  IN <<SubSeq(t[1], 1, e1),
       IF g2 THEN SubSeq(t[2], 1, AmtEnd(t[2], 1)) ELSE <<>>,
       IF g3 THEN SubSeq(t[3], 1, AmtEnd(t[3], 1)) ELSE <<>> >>

\* The lookahead loop reads lines j with j < i + LookaheadBound.
LookaheadBound == 3

\* Mutant of Lookahead: a line that starts with a date does not end the loop.
RECURSIVE LookaheadPastDates(_, _, _)
LookaheadPastDates(ls, at, j) ==
  IF ~(j < Len(ls) /\ j < at + LookaheadBound) THEN [found |-> FALSE, j |-> j]
  ELSE IF ~starts_with_date(ls[j + 1]) /\ amounts_match(ls[j + 1]) THEN [found |-> TRUE, j |-> j]
  ELSE LookaheadPastDates(ls, at, j + 1)

\* The lookahead loop from index j: where it stops and whether it stops on
\* an amounts line.
RECURSIVE Lookahead(_, _, _)
Lookahead(ls, at, j) ==
  IF ~(j < Len(ls) /\ j < at + LookaheadBound) THEN [found |-> FALSE, j |-> j]
  ELSE IF starts_with_date(ls[j + 1]) THEN [found |-> FALSE, j |-> j]
  ELSE IF amounts_match(ls[j + 1]) THEN [found |-> TRUE, j |-> j]
  ELSE Lookahead(ls, at, j + 1)

\* clean_desc with every embedded amount (and its 'R' form) removed.
RECURSIVE RemoveAmounts(_, _)
RemoveAmounts(s, amts) ==
  IF amts = <<>> THEN s
  ELSE RemoveAmounts(ReplaceText(ReplaceText(s, <<"R">> \o Head(amts)), Head(amts)), Tail(amts))

\* 'fee' in description.lower() or (category and 'fee' in category.lower())
MentionsFee(description, category) ==
  \/ InText(<< <<"f", "e", "e">> >>, Lower(description))
  \/ (category # None /\ InText(<< <<"f", "e", "e">> >>, Lower(category)))

\* ------------------------------------------------------------------------
\* The scan loop of _parse_capitec_improved, one iteration per step
\* ------------------------------------------------------------------------
InLoop == pc = "scan" /\ i < Len(lines)

cur == lines[i + 1]

rest_of_line == cur.toks

trans_date == strptime(cur.date).ord

\* The iteration reaches the amount patterns.
Anchored ==
  /\ InLoop
  /\ ~is_header(cur)
  /\ date_match(cur)
  /\ strptime(cur.date).ok
  /\ ~is_notification(rest_of_line)

\* An empty line or a header line: i += 1; continue.
SkipHeader ==
  /\ InLoop
  /\ is_header(cur)
  /\ i' = i + 1
  /\ UNCHANGED <<lines, transactions, pc, result, win, warnings, calls, fnvars, callvars>>

\* A line without a date at its start: i += 1.
SkipOther ==
  /\ InLoop
  /\ ~is_header(cur)
  /\ ~date_match(cur)
  /\ i' = i + 1
  /\ UNCHANGED <<lines, transactions, pc, result, win, warnings, calls, fnvars, callvars>>

\* strptime raises ValueError: the handler logs a warning, then i += 1.
DateError ==
  /\ InLoop
  /\ ~is_header(cur)
  /\ date_match(cur)
  /\ ~strptime(cur.date).ok
  /\ warnings' = warnings + 1
  /\ i' = i + 1
  /\ win' = [NoWin EXCEPT !.kind = "error", !.line = i, !.desc_and_cat = rest_of_line,
                          !.first = Len(transactions), !.logged = 1]
  /\ UNCHANGED <<lines, transactions, pc, result, calls, fnvars, callvars>>

\* A notification line without amounts: i += 1; continue.
SkipNotification ==
  /\ InLoop
  /\ ~is_header(cur)
  /\ date_match(cur)
  /\ strptime(cur.date).ok
  /\ is_notification(rest_of_line)
  /\ i' = i + 1
  /\ win' = [NoWin EXCEPT !.kind = "notification", !.line = i, !.date = trans_date,
                          !.desc_and_cat = rest_of_line, !.first = Len(transactions)]
  /\ UNCHANGED <<lines, transactions, pc, result, warnings, calls, fnvars, callvars>>

\* Three amounts at the end of the anchor line: amount, fee, balance.
ThreeAmounts ==
  /\ Anchored
  /\ pattern_3amt(rest_of_line)
  /\ LET n            == Len(rest_of_line)
         desc_and_cat == SubSeq(rest_of_line, 1, n - 3)
         trans_amount == parse_amount(rest_of_line[n - 2])
         fee          == abs(parse_amount(rest_of_line[n - 1]))
         balance      == parse_amount(rest_of_line[n])
         dc           == extract_category(desc_and_cat)
         t1           == AppendMain(transactions, trans_date, dc[1], trans_amount, dc[2], fee, balance)
         t2           == AppendFee(t1, trans_date, dc[1], fee, balance)
     IN /\ transactions' = t2
        /\ win' = Window("3amt", i, trans_date, desc_and_cat, dc[1], dc[2],
                         trans_amount, fee, balance, transactions, t2)
  /\ i' = i + 1
  /\ UNCHANGED <<lines, pc, result, warnings, calls, fnvars, callvars>>

\* Two amounts at the end of the anchor line: amount and balance.
TwoAmounts ==
  /\ Anchored
  /\ ~pattern_3amt(rest_of_line)
  /\ pattern_2amt(rest_of_line)
  /\ LET n            == Len(rest_of_line)
         desc_and_cat == SubSeq(rest_of_line, 1, n - 2)
         amount1      == parse_amount(rest_of_line[n - 1])
         amount2      == parse_amount(rest_of_line[n])
         dc           == extract_category(desc_and_cat)
         trans_amount == IF MentionsFee(dc[1], dc[2]) THEN abs(amount1) ELSE amount1
         t1           == AppendMain(transactions, trans_date, dc[1], trans_amount, dc[2], 0, amount2)
     IN /\ transactions' = t1
        /\ win' = Window("2amt", i, trans_date, desc_and_cat, dc[1], dc[2],
                         trans_amount, 0, amount2, transactions, t1)
  /\ i' = i + 1
  /\ UNCHANGED <<lines, pc, result, warnings, calls, fnvars, callvars>>

\* Mutant of Continuation: the scan index is left on the amounts line (the
\* i += 1 behind i = j is lost), so the amounts line is scanned again.
ContinuationRescans ==
  /\ Anchored
  /\ ~pattern_3amt(rest_of_line)
  /\ ~pattern_2amt(rest_of_line)
  /\ Lookahead(lines, i, i + 1).found
  /\ LET j            == Lookahead(lines, i, i + 1).j
         g            == amount_groups(lines[j + 1])
         amt1         == parse_amount(g[1])
         amt2         == IF g[2] # <<>> THEN parse_amount(g[2]) ELSE 0
         amt3         == IF g[3] # <<>> THEN parse_amount(g[3]) ELSE 0
         dc           == extract_category(rest_of_line)
         trans_amount == amt1
         fee          == IF amt3 # 0 THEN abs(amt2) ELSE 0
         balance      == IF amt3 # 0 THEN amt3 ELSE IF amt2 # 0 THEN amt2 ELSE 0
         t1           == AppendMain(transactions, trans_date, dc[1], trans_amount, dc[2], fee, balance)
         t2           == AppendFee(t1, trans_date, dc[1], fee, balance)
     IN /\ transactions' = t2
        /\ win' = Window("multi", i, trans_date, rest_of_line, dc[1], dc[2],
                         trans_amount, fee, balance, transactions, t2)
        /\ i' = j
  /\ UNCHANGED <<lines, pc, result, warnings, calls, fnvars, callvars>>

\* No amounts at the end of the anchor line, and the lookahead finds an
\* amounts line at index j: the window takes its amounts, and i = j.
Continuation ==
  /\ Anchored
  /\ ~pattern_3amt(rest_of_line)
  /\ ~pattern_2amt(rest_of_line)
  /\ Lookahead(lines, i, i + 1).found
  /\ LET j            == Lookahead(lines, i, i + 1).j
         g            == amount_groups(lines[j + 1])
         amt1         == parse_amount(g[1])
         amt2         == IF g[2] # <<>> THEN parse_amount(g[2]) ELSE 0
         amt3         == IF g[3] # <<>> THEN parse_amount(g[3]) ELSE 0
         dc           == extract_category(rest_of_line)
         trans_amount == amt1
         fee          == IF amt3 # 0 THEN abs(amt2) ELSE 0
         balance      == IF amt3 # 0 THEN amt3 ELSE IF amt2 # 0 THEN amt2 ELSE 0
         t1           == AppendMain(transactions, trans_date, dc[1], trans_amount, dc[2], fee, balance)
         t2           == AppendFee(t1, trans_date, dc[1], fee, balance)
     IN /\ transactions' = t2
        /\ win' = Window("multi", i, trans_date, rest_of_line, dc[1], dc[2],
                         trans_amount, fee, balance, transactions, t2)
        /\ i' = j + 1
  /\ UNCHANGED <<lines, pc, result, warnings, calls, fnvars, callvars>>

\* No amounts line found: the amounts embedded in the anchor line are used,
\* the first as amount and the last as balance.
Embedded ==
  /\ Anchored
  /\ ~pattern_3amt(rest_of_line)
  /\ ~pattern_2amt(rest_of_line)
  /\ ~Lookahead(lines, i, i + 1).found
  /\ FindAmts(rest_of_line) # <<>>
  /\ LET embedded_amounts == FindAmts(rest_of_line)
         trans_amount     == parse_amount(embedded_amounts[1])
         balance          == IF Len(embedded_amounts) = 1 THEN 0
                             ELSE parse_amount(embedded_amounts[Len(embedded_amounts)])
         clean_desc       == RemoveAmounts(rest_of_line, embedded_amounts)
         dc               == extract_category(clean_desc)
         t1               == AppendMain(transactions, trans_date, dc[1], trans_amount, dc[2], 0, balance)
     IN /\ transactions' = t1
        /\ win' = Window("embedded", i, trans_date, rest_of_line, dc[1], dc[2],
                         trans_amount, 0, balance, transactions, t1)
  /\ i' = i + 1
  /\ UNCHANGED <<lines, pc, result, warnings, calls, fnvars, callvars>>

\* No amount anywhere: a warning is logged and nothing is emitted.
NoAmounts ==
  /\ Anchored
  /\ ~pattern_3amt(rest_of_line)
  /\ ~pattern_2amt(rest_of_line)
  /\ ~Lookahead(lines, i, i + 1).found
  /\ FindAmts(rest_of_line) = <<>>
  /\ warnings' = warnings + 1
  /\ win' = [NoWin EXCEPT !.kind = "noamounts", !.line = i, !.date = trans_date,
                          !.desc_and_cat = rest_of_line, !.first = Len(transactions),
                          !.logged = 1]
  /\ i' = i + 1
  /\ UNCHANGED <<lines, transactions, pc, result, calls, fnvars, callvars>>

\* The loop has ended: parse_pdf returns _sort_by_balance(transactions).
Return ==
  /\ pc = "scan"
  /\ i >= Len(lines)
  /\ result' = _sort_by_balance(transactions)
  /\ pc' = "done"
  /\ calls' = Append(calls, [text |-> lines, result |-> result'])
  /\ UNCHANGED <<lines, i, transactions, win, warnings, fnvars, callvars>>

Scan ==
  \/ SkipHeader
  \/ SkipOther
  \/ DateError
  \/ SkipNotification
  \/ ThreeAmounts
  \/ TwoAmounts
  \/ Continuation
  \/ Embedded
  \/ NoAmounts

\* ------------------------------------------------------------------------
\* Specification: one parse_pdf call on every input text
\* ------------------------------------------------------------------------
Init ==
  /\ lines \in Texts
  /\ i = 0
  /\ transactions = <<>>
  /\ pc = "scan"
  /\ result = <<>>
  /\ win = NoWin
  /\ warnings = 0
  /\ calls = <<>>
  /\ bank_name = "capitec"
  /\ doc = PlainDoc
  /\ raised = NoException
  /\ parked = NoCall
  /\ threads = NoThreads
  /\ self_transactions = NoThreads
  /\ fn_op = "off"
  /\ fn_arg = <<>>
  /\ fn_ret = <<>>
  /\ fn_ret2 = <<>>

Next == Scan \/ Return

Spec == Init /\ [][Next]_vars

\* ------------------------------------------------------------------------
\* Properties of the scan and of the returned list (Spec)
\* ------------------------------------------------------------------------
\* C1: in the list parse_pdf returns, the records of one date appear with
\* ascending balances, whatever the order of the lines in the text.
C1_BalanceAscendingPerDate ==
  pc = "done" =>
    \A a, b \in 1..Len(result) :
      (a < b /\ result[a].date = result[b].date) => result[a].balance <= result[b].balance

\* C1 witness: two records of one date were scanned with the higher balance
\* first, and the call has returned.
C1_Witness ==
  /\ pc = "done"
  /\ \E a, b \in 1..Len(transactions) :
       /\ a < b
       /\ transactions[a].date = transactions[b].date
       /\ transactions[a].balance > transactions[b].balance

\* C2: in the list parse_pdf returns, dates never increase along the list.
C2_NewestDateFirst ==
  pc = "done" =>
    \A a, b \in 1..Len(result) : a < b => result[a].date >= result[b].date

\* C2 witness: an older record was scanned before a newer one, and the call
\* has returned.
C2_Witness ==
  /\ pc = "done"
  /\ \E a, b \in 1..Len(transactions) :
       a < b /\ transactions[a].date < transactions[b].date

\* C3: a window that yields fee > 0 emits exactly two records, which share
\* date and balance, the second being a debit of the fee.
C3_FeeSplitConservation ==
  (win.kind \in {"3amt", "multi"} /\ win.fee > 0) =>
    /\ win.count = 2
    /\ transactions[win.first + 1].date = transactions[win.first + 2].date
    /\ transactions[win.first + 1].balance = transactions[win.first + 2].balance
    /\ transactions[win.first + 2].amount = win.fee
    /\ transactions[win.first + 2].type = "debit"

\* A step of the scan that appends a fee record.
FeeRecordAppended ==
  /\ Len(transactions') > Len(transactions)
  /\ transactions'[Len(transactions')].reference.fee

RepeatTexts ==
  {<<l_header, l_fee>>, <<l_anchor, l_amounts>>, <<l_received, l_three>>,
   <<l_bad_date, l_single>>, <<l_notification, l_anchor>>, <<l_text, l_income>>,
   <<l_fee, l_three>>, <<l_three>>}

\* Mutant of parse_pdf: the list of the previous call is kept.
parse_pdf_keeps_list(text) ==
  /\ pc \in {"idle", "done"}
  /\ Len(calls) < MaxCalls
  /\ lines' = text
  /\ i' = 0
  /\ pc' = "scan"
  /\ result' = <<>>
  /\ win' = NoWin
  /\ warnings' = 0
  /\ UNCHANGED <<transactions, calls, fnvars, callvars>>

\* parse_pdf(pdf_data, 'capitec') is called with a statement whose text is
\* `text`: _parse_capitec_improved starts with an empty list and i = 0.
parse_pdf(text) ==
  /\ pc \in {"idle", "done"}
  /\ Len(calls) < MaxCalls
  /\ lines' = text
  /\ i' = 0
  /\ transactions' = <<>>
  /\ pc' = "scan"
  /\ result' = <<>>
  /\ win' = NoWin
  /\ warnings' = 0
  /\ UNCHANGED <<calls, fnvars, callvars>>

InitRepeat ==
  /\ lines = <<>>
  /\ i = 0
  /\ transactions = <<>>
  /\ pc = "idle"
  /\ result = <<>>
  /\ win = NoWin
  /\ warnings = 0
  /\ calls = <<>>
  /\ bank_name = "capitec"
  /\ doc = PlainDoc
  /\ raised = NoException
  /\ parked = NoCall
  /\ threads = NoThreads
  /\ self_transactions = NoThreads
  /\ fn_op = "off"
  /\ fn_arg = <<>>
  /\ fn_ret = <<>>
  /\ fn_ret2 = <<>>

Call == \E text \in RepeatTexts : parse_pdf(text)

NextRepeat == Call \/ Scan \/ Return

SpecRepeat == InitRepeat /\ [][NextRepeat]_vars

\* C5: two parse_pdf calls with the same text return the same list, with the
\* same references, on a fresh parser object and on one that has parsed
\* another statement before.
C5_Determinism ==
  \A a, b \in 1..Len(calls) :
    calls[a].text = calls[b].text => calls[a].result = calls[b].result

\* C5 witness: a text was parsed by the fresh object and again after another
\* statement, with records returned by every call.
C5_Witness ==
  /\ Len(calls) >= 3
  /\ calls[1].text = calls[3].text
  /\ calls[2].text # calls[1].text
  /\ Len(calls[1].result) >= 2
  /\ calls[2].result # <<>>

\* ------------------------------------------------------------------------
\* Specification: the classifier and the category extractor as functions
\* ------------------------------------------------------------------------
FnDescriptions ==
  {<<>>,
   <<W_Salary>>,
   <<W_Invoice, W_44>>,
   <<W_Payment, W_ReceivedColon, W_Invoice, W_44>>,
   <<W_Payment, W_ReceivedColon, W_Purchase>>,
   <<W_Prepaid, W_Purchase>>,
   <<W_Prepaid, W_Purchase, W_Cellphone>>,
   <<W_Card, W_Fee>>,
   <<W_Cash, W_Withdrawal>>,
   <<W_Cash, W_Withdrawal, W_Cash, W_Withdrawal>>,
   <<W_Salary, W_Other, W_Income>>,
   <<W_Transfer>>}

FnCategories ==
  {None,
   <<W_Other, W_Income>>,
   <<W_Cash, W_Withdrawal>>,
   <<W_Cellphone>>,
   <<W_Interest>>,
   FeesCategory}

InitFn ==
  /\ fn_op = "none"
  /\ fn_arg \in [description : FnDescriptions, category : FnCategories]
  /\ fn_ret = <<>>
  /\ fn_ret2 = <<>>
  /\ lines = <<>>
  /\ i = 0
  /\ transactions = <<>>
  /\ pc = "idle"
  /\ result = <<>>
  /\ win = NoWin
  /\ warnings = 0
  /\ calls = <<>>
  /\ bank_name = "capitec"
  /\ doc = PlainDoc
  /\ raised = NoException
  /\ parked = NoCall
  /\ threads = NoThreads
  /\ self_transactions = NoThreads

\* is_credit_transaction(description, category) is applied.
Classify ==
  /\ fn_op = "none"
  /\ fn_ret' = is_credit_transaction(fn_arg.description, fn_arg.category)
  /\ fn_op' = "is_credit_transaction"
  /\ UNCHANGED <<fn_arg, fn_ret2, scanvars, callvars>>

\* extract_category(description) is applied.
ExtractCategory ==
  /\ fn_op = "none"
  /\ fn_ret' = extract_category(fn_arg.description)
  /\ fn_op' = "extract_category"
  /\ UNCHANGED <<fn_arg, fn_ret2, scanvars, callvars>>

\* extract_category is applied to the description it returned.
ExtractAgain ==
  /\ fn_op = "extract_category"
  /\ fn_ret2' = extract_category(fn_ret[1])
  /\ fn_op' = "extract_category_again"
  /\ UNCHANGED <<fn_arg, fn_ret, scanvars, callvars>>

NextFn == Classify \/ ExtractCategory \/ ExtractAgain

SpecFn == InitFn /\ [][NextFn]_vars

\* C6: is_credit_transaction returns one of its two verdicts for every
\* description and category, the empty description and the absent category
\* included.
C6_ClassifierTotal ==
  fn_op = "is_credit_transaction" => fn_ret \in {"True", "False"}

\* C6 witness: the empty description with no category has been classified.
C6_Witness ==
  /\ fn_op = "is_credit_transaction"
  /\ fn_arg.description = <<>>
  /\ fn_arg.category = None
  /\ fn_ret = "False"

\* C7: the verdict follows the cascade: a credit keyword in the description
\* wins, else a debit keyword in the description, else the category, else
\* debit; "Payment Received: Invoice 44" without category is a credit.
C7_ClassifierCascade ==
  fn_op = "is_credit_transaction" =>
    LET d  == Lower(fn_arg.description)
        c  == CatLower(fn_arg.category)
        dc == AnyIn(credit_keywords, d)
        dd == AnyIn(debit_keywords, d)
        cc == AnyIn(category_credit_words, c)
        cd == AnyIn(category_debit_words, c)
    IN /\ dc => fn_ret = "True"
       /\ (~dc /\ dd) => fn_ret = "False"
       /\ (~dc /\ ~dd /\ cc) => fn_ret = "True"
       /\ (~dc /\ ~dd /\ ~cc /\ cd) => fn_ret = "False"
       /\ (~dc /\ ~dd /\ ~cc /\ ~cd) => fn_ret = "False"
       /\ (fn_arg.description = <<W_Payment, W_ReceivedColon, W_Invoice, W_44>>
             /\ fn_arg.category = None) => TypeOf(fn_ret) = "credit"

\* C7 witness: a description with a credit and a debit keyword and a debit
\* category was classified as a credit.
C7_Witness ==
  /\ fn_op = "is_credit_transaction"
  /\ fn_arg.description = <<W_Payment, W_ReceivedColon, W_Purchase>>
  /\ fn_arg.category = <<W_Cash, W_Withdrawal>>
  /\ fn_ret = "True"

\* C8: extract_category applied to the description it returned returns that
\* description unchanged, with no category.
C8_ExtractIdempotent ==
  fn_op = "extract_category_again" => fn_ret2 = <<fn_ret[1], None>>

\* ------------------------------------------------------------------------
\* The line scenarios (Spec)
\* ------------------------------------------------------------------------
\* A decimal number as a statement prints it: digits, optional thousands
\* separators, a point and two decimals, with an optional minus sign.
IsDecimalNumber(t) ==
  LET c == SelectSeq(t, LAMBDA ch : ch # ",")
  IN Len(c) >= 4 /\ c[Len(c) - 2] = "." /\ Float(c).ok

DecimalValue(t) == Float(SelectSeq(t, LAMBDA ch : ch # ",")).v

IsCategoryLabel(s) == \E k \in 1..Len(categories) : categories[k] = s

\* The line is '<date> <description> <value> <fee> <balance> <category label>'
\* with the description ending before token k.
FeeLineThenCategory(l, k) ==
  /\ strptime(l.date).ok
  /\ k >= 2
  /\ k + 3 <= Len(l.toks)
  /\ \A n \in k..(k + 2) : IsDecimalNumber(l.toks[n])
  /\ DecimalValue(l.toks[k]) > 0
  /\ DecimalValue(l.toks[k + 1]) > 0
  /\ IsCategoryLabel(SubSeq(l.toks, k + 3, Len(l.toks)))

\* C9: a date-anchored line with value > 0, fee > 0 and balance followed by a
\* category label yields a principal record (amount = value, fee = fee,
\* balance = balance, debit) and a fee record (amount = fee, the same
\* balance, debit, description marked as a fee).
C9_FeeLineWithTrailingCategory ==
  \A k \in 2..(IF win.kind = "none" THEN 0 ELSE Len(lines[win.line + 1].toks)) :
    (win.kind # "none" /\ date_match(lines[win.line + 1])
       /\ FeeLineThenCategory(lines[win.line + 1], k)) =>
      LET t == lines[win.line + 1].toks
          p == transactions[win.first + 1]
          f == transactions[win.first + 2]
      IN /\ win.count = 2
         /\ p.amount = DecimalValue(t[k])
         /\ p.fee = DecimalValue(t[k + 1])
         /\ p.balance = DecimalValue(t[k + 2])
         /\ p.type = "debit"
         /\ f.amount = DecimalValue(t[k + 1])
         /\ f.balance = p.balance
         /\ f.type = "debit"
         /\ f.description[Len(f.description)] = FeeMarker

\* The line is '<date> <description> <category label> <value> <fee> <balance>'
\* with value > 0 and fee = 0, the label starting at token k.
ThreeAmountLine(l, k) ==
  LET n == Len(l.toks)
  IN /\ strptime(l.date).ok
     /\ k >= 2
     /\ k <= n - 3
     /\ IsCategoryLabel(SubSeq(l.toks, k, n - 3))
     /\ \A a \in (n - 2)..n : IsDecimalNumber(l.toks[a])
     /\ DecimalValue(l.toks[n - 2]) > 0
     /\ DecimalValue(l.toks[n - 1]) = 0

\* C10: such a line yields exactly one record: the anchor date, the text
\* before the label as description, the label as category, amount = value,
\* fee = 0, balance = balance and the classifier's verdict as type.
C10_ThreeAmountLine ==
  \A k \in 2..(IF win.kind = "none" THEN 0 ELSE Len(lines[win.line + 1].toks)) :
    (win.kind # "none" /\ date_match(lines[win.line + 1])
       /\ ThreeAmountLine(lines[win.line + 1], k)) =>
      LET t == lines[win.line + 1].toks
          n == Len(t)
          r == transactions[win.first + 1]
      IN /\ win.count = 1
         /\ r.date = strptime(lines[win.line + 1].date).ord
         /\ r.description = SubSeq(t, 1, k - 1)
         /\ r.category = SubSeq(t, k, n - 3)
         /\ r.amount = DecimalValue(t[n - 2])
         /\ r.fee = 0
         /\ r.balance = DecimalValue(t[n])
         /\ r.type = TypeOf(is_credit_transaction(SubSeq(t, 1, k - 1), SubSeq(t, k, n - 3)))

\* ------------------------------------------------------------------------
\* Notification lines (Spec)
\* ------------------------------------------------------------------------
\* The line is date-anchored, names insufficient funds or an authentication
\* fee, and holds no decimal amount.
NotificationLine(l) == date_match(l) /\ strptime(l.date).ok /\ is_notification(l.toks)

\* C11: the iteration that handles a notification line emits no record and
\* logs exactly one diagnostic entry for it.
C11_NotificationLogged ==
  (win.kind # "none" /\ NotificationLine(lines[win.line + 1])) =>
    (win.count = 0 /\ win.logged = 1)

\* ------------------------------------------------------------------------
\* _parse_tymebank
\* ------------------------------------------------------------------------
\* A TymeBank date token '21 Oct 2025' is <<"b", 21, <<"O", "c", "t">>, 2025>>:
\* the day, the three word characters and the year that
\* ^(\d{1,2}\s+\w{3}\s+\d{4}) takes. A text handed to _parse_tymebank holds
\* such lines and lines without a date.
IsTymeDate(date_str) == Len(date_str) = 4 /\ date_str[1] = "b"

\* The month abbreviations '%b' accepts, in lower case.
MonthAbbr ==
  << <<"j", "a", "n">>, <<"f", "e", "b">>, <<"m", "a", "r">>, <<"a", "p", "r">>,
     <<"m", "a", "y">>, <<"j", "u", "n">>, <<"j", "u", "l">>, <<"a", "u", "g">>,
     <<"s", "e", "p">>, <<"o", "c", "t">>, <<"n", "o", "v">>, <<"d", "e", "c">> >>

\* The month number of an abbreviation, whatever its case; 0 for no month.
MonthNumber(t) ==
  LET hits == {m \in 1..12 : MonthAbbr[m] = LowerTok(t)}
  IN IF hits = {} THEN 0 ELSE CHOOSE m \in hits : TRUE

\* datetime.strptime(date_str, '%d %b %Y').date(): [ok, ord].
strptime_b(date_str) ==
  strptime(<<date_str[2], MonthNumber(date_str[3]), date_str[4]>>)

\* re.match(r'^(\d{1,2}\s+\w{3}\s+\d{4})\s+(.+)', line)
tyme_date_match(l) == IsTymeDate(l.date) /\ l.toks # <<>>

\* re.match(r'^\d{1,2}\s+\w{3}\s+\d{4}', next_line)
tyme_starts_with_date(l) == IsTymeDate(l.date)

\* (?:\d{1,3}(?:,\d{3})*|\d+)(?:\.\d{2})? taking the whole token.
IsTymeNum(t) ==
  LET n  == DigitRun(t, 1)
      e1 == IF n >= 1 /\ n <= 3 THEN CommaGroups(t, n + 1) ELSE 0
      e2 == n + 1
      TailOk(e) ==
        \/ e = Len(t) + 1
        \/ (e >= 2 /\ e + 2 = Len(t) /\ t[e] = "." /\ t[e + 1] \in Digits /\ t[e + 2] \in Digits)
  IN n >= 1 /\ (TailOk(e1) \/ TailOk(e2))

IsTymeNumOrDash(t) == t = <<"-">> \/ IsTymeNum(t)

\* amount_pattern: fees, money out, money in and balance on one line.
amount_match(l) ==
  /\ l.date = NoDate
  /\ Len(l.toks) = 4
  /\ \A k \in 1..3 : IsTymeNumOrDash(l.toks[k])
  /\ IsTymeNum(l.toks[4])

\* re.match(r'^\d{10,}$', next_line)
is_reference_number(l) ==
  Len(l.toks) = 1 /\ Len(l.toks[1]) >= 10 /\ DigitRun(l.toks[1], 1) = Len(l.toks[1])

\* The lookahead loop reads lines j with j < i + TymeLookaheadBound.
TymeLookaheadBound == 6

\* The lookahead loop from index j with the description parts gathered so
\* far: where it stops, whether on an amounts line, and the parts.
RECURSIVE TymeLookahead(_, _, _, _)
TymeLookahead(ls, at, j, description_parts) ==
  IF ~(j < Len(ls) /\ j < at + TymeLookaheadBound)
  THEN [found |-> FALSE, j |-> j, description_parts |-> description_parts]
  ELSE LET next_line == ls[j + 1]
       IN IF tyme_starts_with_date(next_line)
          THEN [found |-> FALSE, j |-> j, description_parts |-> description_parts]
          ELSE IF amount_match(next_line)
          THEN [found |-> TRUE, j |-> j, description_parts |-> description_parts]
          ELSE IF /\ next_line.toks # <<>>
                  /\ ~is_reference_number(next_line)
                  /\ next_line.toks[1][1] # "-"
          THEN TymeLookahead(ls, at, j + 1, description_parts \o next_line.toks)
          ELSE TymeLookahead(ls, at, j + 1, description_parts)

\* len() of a text of single-spaced words.
RECURSIVE StrLen(_)
StrLen(s) ==
  IF s = <<>> THEN 0
  ELSE Len(Head(s)) + (IF Len(s) > 1 THEN 1 ELSE 0) + StrLen(Tail(s))

\* parse_amount_safe(amount_str), in cents: zero for '-', for a token float
\* rejects and for a value above 10,000,000.
parse_amount_safe(amount_str) ==
  IF amount_str = <<>> \/ amount_str = <<"-">> THEN 0
  ELSE LET cleaned == SelectSeq(amount_str, LAMBDA c : c # ",")
       IN IF ~Float(cleaned).ok THEN 0
          ELSE IF Float(cleaned).v > 10000000 * 100 THEN 0
          ELSE Float(cleaned).v

\* f"TYME-{trans_date.strftime('%Y%m%d')}-{len(transactions)}"
TymeReference(tdate, n) ==
  [bank |-> "TYME", date |-> tdate, seq |-> n, fee |-> FALSE]

\* The record _parse_tymebank appends to a list of n records.
TymeRecord(tdate, description, amount, trans_type, balance, n) ==
  [date        |-> tdate,
   description |-> description,
   amount      |-> amount,
   type        |-> trans_type,
   reference   |-> TymeReference(tdate, n),
   balance     |-> parse_amount_safe(balance)]

\* The amount, the type and the description chosen from money in, money out
\* and fees, and the record appended when the amount is above zero.
TymeAppend(trs, tdate, description, fees, money_out, money_in, balance) ==
  LET money_in_val  == parse_amount_safe(money_in)
      money_out_val == parse_amount_safe(money_out)
      fees_val      == parse_amount_safe(fees)
      amount        == IF money_in_val > 0 THEN money_in_val
                       ELSE IF money_out_val > 0 THEN money_out_val
                       ELSE IF fees_val > 0 THEN fees_val
                       ELSE 0
      trans_type    == IF money_in_val > 0 THEN "credit" ELSE "debit"
      desc          == IF money_in_val <= 0 /\ money_out_val <= 0 /\ fees_val > 0
                       THEN Append(description, FeeMarker)
                       ELSE description
  IN IF amount > 0
     THEN Append(trs, TymeRecord(tdate, desc, amount, trans_type, balance, Len(trs)))
     ELSE trs

\* The while loop of _parse_tymebank from index i: the list of records and
\* the number of warnings logged.
RECURSIVE TymeScan(_, _, _, _)
TymeScan(ls, at, trs, warned) ==
  IF at >= Len(ls) THEN [transactions |-> trs, warnings |-> warned]
  ELSE LET l == ls[at + 1]
       IN IF ~tyme_date_match(l) THEN TymeScan(ls, at + 1, trs, warned)
          ELSE IF ~strptime_b(l.date).ok THEN TymeScan(ls, at + 1, trs, warned + 1)
          ELSE LET la          == TymeLookahead(ls, at, at + 1, l.toks)
                   description == la.description_parts
                   amounts     == ls[la.j + 1].toks
               IN IF ~la.found THEN TymeScan(ls, at + 1, trs, warned)
                  ELSE IF \/ StrLen(description) < 3
                          \/ InText(<< <<"D", "e", "s", "c", "r", "i", "p", "t", "i", "o", "n">> >>, description)
                  THEN TymeScan(ls, la.j + 1, trs, warned)
                  ELSE TymeScan(ls, la.j + 1,
                                TymeAppend(trs, strptime_b(l.date).ord, description,
                                           amounts[1], amounts[2], amounts[3], amounts[4]),
                                warned)

_parse_tymebank(text) == TymeScan(text, 0, <<>>, 0)

\* ------------------------------------------------------------------------
\* _parse_generic
\* ------------------------------------------------------------------------
\* An ISO date token '2025-10-21' is <<"iso", 2025, 10, 21>>. Days and months
\* are written with two digits in every format.
date_format(date_str) ==
  IF date_str = NoDate THEN "none"
  ELSE IF Len(date_str) = 3 THEN "%d/%m/%Y"
  ELSE IF date_str[1] = "b" THEN "%d %b %Y"
  ELSE "%Y-%m-%d"

\* datetime.strptime(match[0].strip(), date_format).date(): [ok, ord].
strptime_any(date_str) ==
  IF date_format(date_str) = "%d/%m/%Y" THEN strptime(date_str)
  ELSE IF date_format(date_str) = "%d %b %Y" THEN strptime_b(date_str)
  ELSE strptime(<<date_str[4], date_str[3], date_str[2]>>)

\* The line break inside a description that spans lines.
NL == <<"\n">>

DigitChar == <<"0", "1", "2", "3", "4", "5", "6", "7", "8", "9">>

\* A number written with n digits.
RECURSIVE Written(_, _)
Written(v, n) ==
  IF n = 0 THEN <<>> ELSE Append(Written(v \div 10, n - 1), DigitChar[(v % 10) + 1])

\* The words a date is written with.
DateToks(date_str) ==
  IF date_format(date_str) = "%d/%m/%Y"
  THEN <<Written(date_str[1], 2) \o <<"/">> \o Written(date_str[2], 2) \o <<"/">> \o Written(date_str[3], 4)>>
  ELSE IF date_format(date_str) = "%d %b %Y"
  THEN <<Written(date_str[2], 2), date_str[3], Written(date_str[4], 4)>>
  ELSE <<Written(date_str[2], 4) \o <<"-">> \o Written(date_str[3], 2) \o <<"-">> \o Written(date_str[4], 2)>>

\* The text from line j on as words, each with the index of its line, and
\* with NL for every line break.
RECURSIVE WordsFrom(_, _)
WordsFrom(ls, j) ==
  IF j >= Len(ls) THEN <<>>
  ELSE LET l  == ls[j + 1]
           ws == (IF l.date = NoDate THEN <<>> ELSE DateToks(l.date)) \o l.toks
       IN <<[tok |-> NL, line |-> j]>>
            \o [k \in 1..Len(ws) |-> [tok |-> ws[k], line |-> j]]
            \o WordsFrom(ls, j + 1)

\* The words that follow the date of line `at`.
WordsAfterDate(ls, at) ==
  [k \in 1..Len(ls[at + 1].toks) |-> [tok |-> ls[at + 1].toks[k], line |-> at]]
    \o WordsFrom(ls, at + 1)

\* -?R?[\d,]+\.\d{2} matched at the start of token t: the position of the
\* last character of the match, 0 when there is no match.
RECURSIVE DigitOrCommaRun(_, _)
DigitOrCommaRun(t, p) ==
  IF p <= Len(t) /\ (t[p] \in Digits \/ t[p] = ",") THEN 1 + DigitOrCommaRun(t, p + 1) ELSE 0

GenericAmtEnd(t) ==
  LET q == IF Len(t) >= 1 /\ t[1] = "-" THEN 2 ELSE 1
      r == IF q <= Len(t) /\ t[q] = "R" THEN q + 1 ELSE q
      n == DigitOrCommaRun(t, r)
      e == r + n
  IN IF n >= 1 /\ e + 2 <= Len(t) /\ t[e] = "." /\ t[e + 1] \in Digits /\ t[e + 2] \in Digits
     THEN e + 2
     ELSE 0

\* [^\d\-\+\$R]: the characters a description of patterns 2 to 4 is made of.
IsDescriptionTok(t) ==
  \A p \in 1..Len(t) : t[p] \notin Digits \cup {"-", "+", "$", "R"}

\* Index of the first word from k on that is no line break; 0 for none.
RECURSIVE SkipBreaks(_, _)
SkipBreaks(ws, k) ==
  IF k > Len(ws) THEN 0
  ELSE IF ws[k].tok = NL THEN SkipBreaks(ws, k + 1)
  ELSE k

\* ([^\d\-\+\$R]+?)\s+(amount) from word k on: the index of the word the
\* amount starts, 0 when the pattern fails.
RECURSIVE DescriptionThenAmount(_, _)
DescriptionThenAmount(ws, k) ==
  IF k > Len(ws) THEN 0
  ELSE IF ws[k].tok = NL THEN DescriptionThenAmount(ws, k + 1)
  ELSE IF GenericAmtEnd(ws[k].tok) > 0 THEN k
  ELSE IF IsDescriptionTok(ws[k].tok) THEN DescriptionThenAmount(ws, k + 1)
  ELSE 0

\* Index of the first word '|' from k on; 0 for none.
RECURSIVE NextPipe(_, _)
NextPipe(ws, k) ==
  IF k > Len(ws) THEN 0
  ELSE IF ws[k].tok = <<"|">> THEN k
  ELSE NextPipe(ws, k + 1)

\* text.strip() on words: the line breaks at both ends are dropped.
RECURSIVE StripBreaks(_)
StripBreaks(s) ==
  IF s = <<>> THEN s
  ELSE IF Head(s) = NL THEN StripBreaks(Tail(s))
  ELSE IF s[Len(s)] = NL THEN StripBreaks(SubSeq(s, 1, Len(s) - 1))
  ELSE s

\* One match of a pattern: the date, the description and the amount text.
GenericMatch(date_str, ws, from, to, amt) ==
  [date        |-> date_str,
   description |-> StripBreaks([k \in 1..(to - from + 1) |-> ws[from + k - 1].tok]),
   amount_str  |-> SubSeq(ws[amt].tok, 1, GenericAmtEnd(ws[amt].tok)),
   line        |-> ws[amt].line]

\* Patterns 2, 3 and 4 tried at the date of line `at`: <<match>> or <<>>.
SpacedPatternAt(ls, at) ==
  LET ws == WordsAfterDate(ls, at)
      k1 == SkipBreaks(ws, 1)
      a  == IF k1 > 0 /\ IsDescriptionTok(ws[k1].tok) /\ GenericAmtEnd(ws[k1].tok) = 0
            THEN DescriptionThenAmount(ws, k1 + 1)
            ELSE 0
  IN IF a > 0 THEN <<GenericMatch(ls[at + 1].date, ws, k1, a - 1, a)>> ELSE <<>>

\* Pattern 1, date | description | amount, tried at the date of line `at`.
\* A '|' is a word of its own in every text of the model.
PipePatternAt(ls, at) ==
  LET ws == WordsAfterDate(ls, at)
      p1 == SkipBreaks(ws, 1)
      p2 == IF p1 > 0 /\ ws[p1].tok = <<"|">> THEN NextPipe(ws, p1 + 1) ELSE 0
      a  == IF p2 > 0 THEN SkipBreaks(ws, p2 + 1) ELSE 0
  IN IF a > 0 /\ GenericAmtEnd(ws[a].tok) > 0
     THEN <<GenericMatch(ls[at + 1].date, ws, p1 + 1, p2 - 1, a)>>
     ELSE <<>>

\* The four patterns with their date formats.
patterns ==
  <<[separator |-> "|", date_format |-> "%d/%m/%Y"],
    [separator |-> " ", date_format |-> "%d/%m/%Y"],
    [separator |-> " ", date_format |-> "%Y-%m-%d"],
    [separator |-> " ", date_format |-> "%d %b %Y"]>>

\* re.findall(pattern, text, re.MULTILINE) from line `at` on: the matches in
\* order; the search goes on behind the line a match ended in.
RECURSIVE findall(_, _, _)
findall(pattern, ls, at) ==
  IF at >= Len(ls) THEN <<>>
  ELSE LET m == IF date_format(ls[at + 1].date) # pattern.date_format THEN <<>>
                ELSE IF pattern.separator = "|" THEN PipePatternAt(ls, at)
                ELSE SpacedPatternAt(ls, at)
       IN IF m = <<>> THEN findall(pattern, ls, at + 1)
          ELSE m \o findall(pattern, ls, m[1].line + 1)

\* len() of a description whose words stand one space apart on a line, with
\* NL for every line break.
RECURSIVE GenericStrLen(_)
GenericStrLen(s) ==
  IF s = <<>> THEN 0
  ELSE Len(Head(s))
         + (IF Len(s) > 1 /\ Head(s) # NL /\ s[2] # NL THEN 1 ELSE 0)
         + GenericStrLen(Tail(s))

\* float(match[2].replace('R', '').replace('$', '').replace(',', '').strip()),
\* in cents.
generic_amount(amount_str) ==
  Float(SelectSeq(amount_str, LAMBDA c : c \notin {"R", "$", ","}))

\* f"GEN-{trans_date.strftime('%Y%m%d')}-{len(transactions)}"
GenericReference(tdate, n) ==
  [bank |-> "GEN", date |-> tdate, seq |-> n, fee |-> FALSE]

\* The record _parse_generic appends to a list of n records.
GenericRecord(tdate, description, amount, n) ==
  [date        |-> tdate,
   description |-> description,
   amount      |-> abs(amount),
   type        |-> IF amount < 0 THEN "debit" ELSE "credit",
   reference   |-> GenericReference(tdate, n),
   balance     |-> 0]

\* The loop over the matches of one pattern: a match whose date or amount
\* does not parse, or whose description is shorter than 3, is passed over.
RECURSIVE GenericAppend(_, _)
GenericAppend(trs, matches) ==
  IF matches = <<>> THEN trs
  ELSE LET match == Head(matches)
           d     == strptime_any(match.date)
           a     == generic_amount(match.amount_str)
       IN IF ~d.ok \/ ~a.ok \/ GenericStrLen(match.description) < 3
          THEN GenericAppend(trs, Tail(matches))
          ELSE GenericAppend(Append(trs, GenericRecord(d.ord, match.description, a.v, Len(trs))),
                             Tail(matches))

\* The loop over the patterns from pattern k on: the first pattern that
\* yields a record ends it.
RECURSIVE GenericPatterns(_, _)
GenericPatterns(text, k) ==
  IF k > Len(patterns) THEN <<>>
  ELSE LET transactions_k == GenericAppend(<<>>, findall(patterns[k], text, 0))
       IN IF transactions_k # <<>> THEN transactions_k
          ELSE GenericPatterns(text, k + 1)

_parse_generic(text) == GenericPatterns(text, 1)

\* ------------------------------------------------------------------------
\* _extract_text_from_pdf
\* ------------------------------------------------------------------------
\* What the function finds: the library that imports ("PyPDF2", else
\* "pdfplumber", else "none"), whether the library can read the document,
\* whether the document is encrypted, and the password argument ("none" for
\* None or '', "wrong", "right").
Docs ==
  [library : {"PyPDF2", "pdfplumber", "none"}, readable : BOOLEAN,
   is_encrypted : BOOLEAN, password : {"none", "wrong", "right"}]

\* The exceptions of the function itself, and one raised inside a library call.
NoPasswordError ==
  [type |-> "ValueError", message |-> "PDF is password protected but no password provided"]

IncorrectPasswordError == [type |-> "ValueError", message |-> "Incorrect PDF password"]

NoLibraryError ==
  [type |-> "ImportError", message |-> "No PDF library available. Install PyPDF2 or pdfplumber"]

LibraryError(call) == [type |-> "library", message |-> call]

\* The exception _extract_text_from_pdf(pdf_data, password) ends with, or
\* NoException when it returns the text.
_extract_text_from_pdf(d) ==
  IF d.library = "PyPDF2"
  THEN IF ~d.readable THEN LibraryError("PyPDF2.PdfReader")
       ELSE IF d.is_encrypted /\ d.password = "none" THEN NoPasswordError
       ELSE IF d.is_encrypted /\ d.password = "wrong" THEN IncorrectPasswordError
       ELSE NoException
  ELSE IF d.library = "pdfplumber"
  THEN IF ~d.readable \/ (d.is_encrypted /\ d.password # "right")
       THEN LibraryError("pdfplumber.open")
       ELSE NoException
  ELSE NoLibraryError

\* upload_pdf's handler: a ValueError whose message holds 'password' is
\* reported as a password error, every other exception as a generic error.
flash(e) ==
  IF e.type = "ValueError" /\ e.message \in {NoPasswordError.message, IncorrectPasswordError.message}
  THEN "PDF is password protected. Please enter the correct password."
  ELSE "Error"

\* ------------------------------------------------------------------------
\* Specification: one parse_pdf call of a bank other than capitec, on any document
\* ------------------------------------------------------------------------
\* Lines of TymeBank statements.
TymeLineSet ==
  { \* 21 Oct 2025 Card Purchase
   Line(<<"b", 21, <<"O", "c", "t">>, 2025>>, <<<<"C", "a", "r", "d">>, <<"P", "u", "r", "c", "h", "a", "s", "e">>>>),
    \* 20 Oct 2025 Salary
   Line(<<"b", 20, <<"O", "c", "t">>, 2025>>, <<<<"S", "a", "l", "a", "r", "y">>>>),
    \* 21 Xyz 2025 Card Purchase
   Line(<<"b", 21, <<"X", "y", "z">>, 2025>>, <<<<"C", "a", "r", "d">>, <<"P", "u", "r", "c", "h", "a", "s", "e">>>>),
    \* 22 Oct 2025 AB
   Line(<<"b", 22, <<"O", "c", "t">>, 2025>>, <<<<"A", "B">>>>),
    \* - 45.00 - 1,234.56
   Line(NoDate, <<<<"-">>, <<"4", "5", ".", "0", "0">>, <<"-">>, <<"1", ",", "2", "3", "4", ".", "5", "6">>>>),
    \* - - 500.00 1,734.56
   Line(NoDate, <<<<"-">>, <<"-">>, <<"5", "0", "0", ".", "0", "0">>, <<"1", ",", "7", "3", "4", ".", "5", "6">>>>),
    \* 5.00 - - 1,229.56
   Line(NoDate, <<<<"5", ".", "0", "0">>, <<"-">>, <<"-">>, <<"1", ",", "2", "2", "9", ".", "5", "6">>>>),
    \* 5.00 45.00 - 1,184.56
   Line(NoDate, <<<<"5", ".", "0", "0">>, <<"4", "5", ".", "0", "0">>, <<"-">>, <<"1", ",", "1", "8", "4", ".", "5", "6">>>>),
    \* - - - 1,234.56
   Line(NoDate, <<<<"-">>, <<"-">>, <<"-">>, <<"1", ",", "2", "3", "4", ".", "5", "6">>>>),
    \* 1234567890
   Line(NoDate, <<<<"1", "2", "3", "4", "5", "6", "7", "8", "9", "0">>>>),
    \* Checkers Sandton
   Line(NoDate, <<<<"C", "h", "e", "c", "k", "e", "r", "s">>, <<"S", "a", "n", "d", "t", "o", "n">>>>),
    \* (an empty line)
   Line(NoDate, <<>>)}

\* Lines of statements of other banks.
GenericLineSet ==
  { \* 21/10/2025 Prepaid Purchase Cellphone 150.00 0.00 4,320.55
   Line(<<21, 10, 2025>>, <<<<"P", "r", "e", "p", "a", "i", "d">>, <<"P", "u", "r", "c", "h", "a", "s", "e">>, <<"C", "e", "l", "l", "p", "h", "o", "n", "e">>, <<"1", "5", "0", ".", "0", "0">>, <<"0", ".", "0", "0">>, <<"4", ",", "3", "2", "0", ".", "5", "5">>>>),
    \* 22/10/2025 Cash Withdrawal
   Line(<<22, 10, 2025>>, <<<<"C", "a", "s", "h">>, <<"W", "i", "t", "h", "d", "r", "a", "w", "a", "l">>>>),
    \* 500.00 7.50 400.00
   Line(NoDate, <<<<"5", "0", "0", ".", "0", "0">>, <<"7", ".", "5", "0">>, <<"4", "0", "0", ".", "0", "0">>>>),
    \* 21/10/2025 Recurring Transfer Insufficient Funds (16916070)
   Line(<<21, 10, 2025>>, <<<<"R", "e", "c", "u", "r", "r", "i", "n", "g">>, <<"T", "r", "a", "n", "s", "f", "e", "r">>, <<"I", "n", "s", "u", "f", "f", "i", "c", "i", "e", "n", "t">>, <<"F", "u", "n", "d", "s">>, <<"(", "1", "6", "9", "1", "6", "0", "7", "0", ")">>>>),
    \* 31/02/2025 Purchase 10.00 20.00
   Line(<<31, 2, 2025>>, <<<<"P", "u", "r", "c", "h", "a", "s", "e">>, <<"1", "0", ".", "0", "0">>, <<"2", "0", ".", "0", "0">>>>),
    \* Interest
   Line(NoDate, <<<<"I", "n", "t", "e", "r", "e", "s", "t">>>>),
    \* 21/10/2025 Coffee 0.00
   Line(<<21, 10, 2025>>, <<<<"C", "o", "f", "f", "e", "e">>, <<"0", ".", "0", "0">>>>),
    \* 20/10/2025 Coffee -R45.00
   Line(<<20, 10, 2025>>, <<<<"C", "o", "f", "f", "e", "e">>, <<"-", "R", "4", "5", ".", "0", "0">>>>),
    \* 21/10/2025 Me 45.00
   Line(<<21, 10, 2025>>, <<<<"M", "e">>, <<"4", "5", ".", "0", "0">>>>),
    \* 2025-10-21 Coffee 45.00
   Line(<<"iso", 2025, 10, 21>>, <<<<"C", "o", "f", "f", "e", "e">>, <<"4", "5", ".", "0", "0">>>>),
    \* 21 Oct 2025 Coffee 45.00
   Line(<<"b", 21, <<"O", "c", "t">>, 2025>>, <<<<"C", "o", "f", "f", "e", "e">>, <<"4", "5", ".", "0", "0">>>>),
    \* 21/10/2025 | Coffee Shop | 45.00
   Line(<<21, 10, 2025>>, <<<<"|">>, <<"C", "o", "f", "f", "e", "e">>, <<"S", "h", "o", "p">>, <<"|">>, <<"4", "5", ".", "0", "0">>>>),
    \* (an empty line)
   Line(NoDate, <<>>)}

TymeTexts == SeqsUpTo(TymeLineSet, MaxLines) \ {<<>>}

GenericTexts == SeqsUpTo(GenericLineSet, MaxLines) \ {<<>>}

\* The bank identifiers of this specification: 'tymebank', 'other', and one
\* that is none of the three parse_pdf names ('capitec' is Spec's call).
BankNames == {"tymebank", "other", "fnb"}

BankTexts(bank) == IF bank = "tymebank" THEN TymeTexts ELSE GenericTexts

\* text = self._extract_text_from_pdf(pdf_data, password) returns.
ExtractText ==
  /\ pc = "extract"
  /\ _extract_text_from_pdf(doc) = NoException
  /\ pc' = "scan"
  /\ UNCHANGED <<lines, i, transactions, result, win, warnings, calls, fnvars, callvars>>

\* _extract_text_from_pdf raises: parse_pdf ends with the exception.
ExtractFails ==
  /\ pc = "extract"
  /\ _extract_text_from_pdf(doc) # NoException
  /\ raised' = _extract_text_from_pdf(doc)
  /\ pc' = "raised"
  /\ UNCHANGED <<lines, i, transactions, result, win, warnings, calls, fnvars, bank_name, doc, parked, threads, self_transactions>>

\* bank_name == 'tymebank': _parse_tymebank, then _sort_by_balance.
ParseTymebank ==
  /\ pc = "scan"
  /\ bank_name = "tymebank"
  /\ transactions' = _parse_tymebank(lines).transactions
  /\ warnings' = _parse_tymebank(lines).warnings
  /\ i' = Len(lines)
  /\ result' = _sort_by_balance(transactions')
  /\ pc' = "done"
  /\ calls' = Append(calls, [text |-> lines, result |-> result'])
  /\ UNCHANGED <<lines, win, fnvars, callvars>>

\* Any other bank_name: _parse_generic, then _sort_by_balance.
ParseGeneric ==
  /\ pc = "scan"
  /\ bank_name \notin {"tymebank", "capitec"}
  /\ transactions' = _parse_generic(lines)
  /\ result' = _sort_by_balance(transactions')
  /\ pc' = "done"
  /\ calls' = Append(calls, [text |-> lines, result |-> result'])
  /\ UNCHANGED <<lines, i, win, warnings, fnvars, callvars>>

InitBank ==
  /\ bank_name \in BankNames
  /\ \/ doc = PlainDoc /\ lines \in BankTexts(bank_name)
     \/ doc \in Docs /\ lines \in RepeatTexts
  /\ i = 0
  /\ transactions = <<>>
  /\ pc = "extract"
  /\ result = <<>>
  /\ win = NoWin
  /\ warnings = 0
  /\ calls = <<>>
  /\ raised = NoException
  /\ parked = NoCall
  /\ threads = NoThreads
  /\ self_transactions = NoThreads
  /\ fn_op = "off"
  /\ fn_arg = <<>>
  /\ fn_ret = <<>>
  /\ fn_ret2 = <<>>

NextBank == ExtractText \/ ExtractFails \/ ParseTymebank \/ ParseGeneric

SpecBank == InitBank /\ [][NextBank]_vars

\* ------------------------------------------------------------------------
\* Claims on the call of any bank
\* ------------------------------------------------------------------------
\* The keys of a ParsedTransaction record.
RecordKeys ==
  {"date", "description", "amount", "type", "category", "fee", "balance", "reference"}

\* C12: every record parse_pdf returns, for every bank identifier, carries
\* all of the keys date, description, amount, type, category, fee, balance
\* and reference.
C12_AllKeys ==
  pc = "done" => \A k \in 1..Len(result) : RecordKeys \subseteq DOMAIN result[k]

\* The document is encrypted and the password is missing or incorrect, in a
\* document a library can read.
PasswordFailure(d) ==
  d.library # "none" /\ d.readable /\ d.is_encrypted /\ d.password \in {"none", "wrong"}

\* C13: when the document is encrypted and the password is missing or
\* incorrect, parse_pdf fails with an error the caller reports as a password
\* error and not as a generic failure; no line is scanned and no list is
\* returned.
C13_PasswordFailure ==
  (pc # "extract" /\ PasswordFailure(doc)) =>
    /\ pc = "raised"
    /\ flash(raised) = flash(NoPasswordError)
    /\ flash(raised) # flash(LibraryError("PyPDF2.PdfReader"))
    /\ i = 0 /\ transactions = <<>> /\ result = <<>> /\ calls = <<>>

\* The bank identifiers parse_pdf names: 'tymebank', 'capitec', 'other'.
RecognizedBanks == {"tymebank", "capitec", "other"}

\* C14: a call whose bank identifier is not one of the recognized banks
\* fails; it never returns a transaction list.
C14_UnknownBankFails ==
  bank_name \notin RecognizedBanks => pc # "done"

\* ------------------------------------------------------------------------
\* Claims on the windows of the Capitec scan
\* ------------------------------------------------------------------------
\* C16: a window whose principal value parses to zero emits no record at all.
C16_ZeroPrincipal ==
  (win.kind \in {"3amt", "2amt", "multi", "embedded"} /\ win.trans_amount = 0) =>
    win.count = 0

\* C17: in every record parse_pdf returns the amount is strictly positive
\* and the fee, where the record carries one, is not negative.
C17_PositiveAmount ==
  pc = "done" =>
    \A k \in 1..Len(result) :
      /\ result[k].amount > 0
      /\ "fee" \in DOMAIN result[k] => result[k].fee >= 0

\* ------------------------------------------------------------------------
\* Specification: one Capitec parse_pdf call on texts with continuation lines
\* ------------------------------------------------------------------------
\* The largest number of lines between an anchor line and the line that
\* follows the gap.
MaxGap == 5

\* A line of text that is no category label: 'Checkers Sandton'.
l_store ==
  Line(NoDate, <<<<"C", "h", "e", "c", "k", "e", "r", "s">>, <<"S", "a", "n", "d", "t", "o", "n">>>>)

\* An anchor line without amounts, a gap of up to MaxGap lines without date
\* and without amounts, and then an amounts line, a new anchor with its
\* amounts line, or a line with three amounts; in front of it nothing or a
\* line whose date does not exist.
LookaheadTexts ==
  {head \o <<l_anchor>> \o gap \o tail :
     head \in {<<>>, <<l_bad_date>>},
     gap  \in SeqsUpTo({l_store, l_empty}, MaxGap),
     tail \in {<<l_amounts>>, <<l_anchor, l_amounts>>, <<l_three>>}}

InitLookahead ==
  /\ lines \in Texts \cup LookaheadTexts
  /\ i = 0
  /\ transactions = <<>>
  /\ pc = "scan"
  /\ result = <<>>
  /\ win = NoWin
  /\ warnings = 0
  /\ calls = <<>>
  /\ bank_name = "capitec"
  /\ doc = PlainDoc
  /\ raised = NoException
  /\ parked = NoCall
  /\ threads = NoThreads
  /\ self_transactions = NoThreads
  /\ fn_op = "off"
  /\ fn_arg = <<>>
  /\ fn_ret = <<>>
  /\ fn_ret2 = <<>>

\* A turn of the while loop or its end, seen on the scan index and pc alone.
LoopRuns == pc = "scan" /\ i' \in i..Len(lines) /\ pc' \in {"scan", "done"}

\* The call's one thread is not stopped: while the loop has not ended,
\* another turn of it, or its end, is taken.
SpecLookahead == InitLookahead /\ [][Next]_vars /\ WF_<<i, pc>>(LoopRuns)

\* The scan stands on an anchor line that carries no trailing amounts.
NoTrailingAmounts ==
  Anchored /\ ~pattern_3amt(rest_of_line) /\ ~pattern_2amt(rest_of_line)

\* A line without a date that begins with amounts, and one that does not.
AmountsLine(l) == ~starts_with_date(l) /\ amounts_match(l)

PlainLine(l) == ~starts_with_date(l) /\ ~amounts_match(l)

\* The amounts line is the third line after the anchor, no date in between.
ThirdLineAmounts ==
  /\ NoTrailingAmounts
  /\ i + 3 < Len(lines)
  /\ PlainLine(lines[i + 2])
  /\ PlainLine(lines[i + 3])
  /\ AmountsLine(lines[i + 4])

\* C19: the lookahead of a window without trailing amounts attaches an
\* amounts line that is the third line after the anchor, and never a line
\* more than five lines after the anchor.
C19_LookaheadBound ==
  [][/\ ThirdLineAmounts => (win'.kind = "multi" /\ i' = i + 4)
     /\ (NoTrailingAmounts /\ win'.kind = "multi") => (i' - 1) - i \in 1..5]_vars

\* A line with a character that is no digit, comma or point.
NonNumericLine(l) ==
  \E k \in 1..Len(l.toks) : \E c \in 1..Len(l.toks[k]) :
    l.toks[k][c] \notin Digits \cup {",", "."}

\* The words of the non-numeric lines ls[from] .. ls[to], in order.
RECURSIVE InterveningWords(_, _, _)
InterveningWords(ls, from, to) ==
  IF from > to THEN <<>>
  ELSE (IF NonNumericLine(ls[from]) THEN ls[from].toks ELSE <<>>)
         \o InterveningWords(ls, from + 1, to)

\* C20: when the lookahead finds the amounts on a later line, the
\* description of the emitted record is the anchor's text followed by the
\* words of every non-numeric line between the anchor and the amounts line
\* (less the category label the text ends in).
C20_InterveningLines ==
  [][(NoTrailingAmounts /\ win'.kind = "multi" /\ win'.trans_amount # 0) =>
       transactions'[win'.first + 1].description =
         extract_category(rest_of_line \o InterveningWords(lines, i + 2, i' - 1))[1]]_vars

\* A date-anchored line with three trailing amounts and a principal that is
\* not zero: the scan emits its record when it stands on the line.
EmittingLine(l) ==
  /\ ~is_header(l)
  /\ date_match(l)
  /\ strptime(l.date).ok
  /\ ~is_notification(l.toks)
  /\ pattern_3amt(l.toks)
  /\ parse_amount(l.toks[Len(l.toks) - 2]) # 0

\* C18: the scan ends on every text; every iteration moves the scan index
\* forward and passes over no line that starts with a date; and at the end
\* every date-anchored line with its amounts has its record in the list,
\* whatever windows failed or were abandoned before it.
C18_ForwardProgress ==
  /\ <>(pc = "done")
  /\ [][Scan => /\ i' > i
                /\ \A k \in (i + 2)..i' : ~starts_with_date(lines[k])]_vars
  /\ [](pc = "done" =>
          \A k \in 1..Len(lines) :
            EmittingLine(lines[k]) =>
              \E n \in 1..Len(result) :
                /\ result[n].date = strptime(lines[k].date).ord
                /\ result[n].amount = abs(parse_amount(lines[k].toks[Len(lines[k].toks) - 2]))
                /\ result[n].balance = parse_amount(lines[k].toks[Len(lines[k].toks)]))

\* C18 witness: the scan has ended on a text that begins with a window
\* whose date does not parse, then an abandoned window, and a later line
\* was emitted.
C18_Witness ==
  /\ pc = "done"
  /\ Len(lines) >= 3
  /\ date_match(lines[1]) /\ ~strptime(lines[1].date).ok
  /\ warnings >= 2
  /\ \E k \in 3..Len(lines) : EmittingLine(lines[k])
  /\ result # <<>>

\* ------------------------------------------------------------------------
\* CapitecPDFParser (parsers_capitec.py)
\* ------------------------------------------------------------------------
\* CAPITEC_CATEGORIES: the labels of PDFParser's list, then nine more.
CAPITEC_CATEGORIES ==
  categories \o
  << <<<<"E", "n", "t", "e", "r", "t", "a", "i", "n", "m", "e", "n", "t">>>>,
     <<<<"C", "l", "o", "t", "h", "i", "n", "g">>, <<"&">>, <<"F", "o", "o", "t", "w", "e", "a", "r">>>>,
     <<<<"T", "r", "a", "n", "s", "p", "o", "r", "t">>>>,
     <<<<"M", "e", "d", "i", "c", "a", "l">>>>,
     <<<<"I", "n", "s", "u", "r", "a", "n", "c", "e">>>>,
     <<<<"E", "d", "u", "c", "a", "t", "i", "o", "n">>>>,
     <<<<"H", "o", "m", "e">>, <<"&">>, <<"G", "a", "r", "d", "e", "n">>>>,
     <<<<"P", "e", "t", "s">>>>,
     <<<<"S", "u", "b", "s", "c", "r", "i", "p", "t", "i", "o", "n", "s">>>> >>

\* CREDIT_KEYWORDS and DEBIT_KEYWORDS: PDFParser's keywords, then 'credit',
\* 'reversal', 'cashback' and 'swipe'.
CREDIT_KEYWORDS ==
  credit_keywords \o
  << <<<<"c", "r", "e", "d", "i", "t">>>>,
     <<<<"r", "e", "v", "e", "r", "s", "a", "l">>>>,
     <<<<"c", "a", "s", "h", "b", "a", "c", "k">>>> >>

DEBIT_KEYWORDS == debit_keywords \o << <<<<"s", "w", "i", "p", "e">>>> >>

\* _extract_category(text_str): <<description, category>>.
_extract_category(text_str) ==
  LET hits == {k \in 1..Len(CAPITEC_CATEGORIES) : EndsWith(text_str, CAPITEC_CATEGORIES[k])}
  IN IF hits = {} THEN <<text_str, None>>
     ELSE LET k == CHOOSE h \in hits : \A g \in hits : h <= g
          IN <<CutSuffix(text_str, CAPITEC_CATEGORIES[k]), CAPITEC_CATEGORIES[k]>>

\* _is_credit_transaction(description, category)
_is_credit_transaction(description, category) ==
  LET desc_lower == Lower(description)
      cat_lower  == CatLower(category)
  IN IF AnyIn(CREDIT_KEYWORDS, desc_lower) THEN TRUE
     ELSE IF AnyIn(DEBIT_KEYWORDS, desc_lower) THEN FALSE
     ELSE IF AnyIn(category_credit_words, cat_lower) THEN TRUE
     ELSE IF AnyIn(category_debit_words, cat_lower) THEN FALSE
     ELSE FALSE

\* The lines the loop of _parse_capitec_transactions skips: an empty line,
\* a header phrase, or 'Page ' anywhere in the line.
capitec_is_header(l) ==
  LET s == LineText(l)
  IN \/ s = <<>>
     \/ \E k \in {1, 2, 4, 5, 6} : InText(header_phrases[k], s)
     \/ \E p \in 1..(Len(s) - 1) : IsSuffixTok(<<"P", "a", "g", "e">>, s[p])

\* A record of CapitecPDFParser: the reference holds no sequence number, and
\* the record carries the index of the last line of its window.
CapitecRecord(tdate, description, amount, type, category, fee, balance, is_fee, line_end) ==
  [date        |-> tdate,
   description |-> description,
   amount      |-> amount,
   type        |-> type,
   category    |-> category,
   fee         |-> fee,
   balance     |-> balance,
   reference   |-> [bank |-> "CAP", date |-> tdate, fee |-> is_fee],
   _line_end   |-> line_end]

\* _parse_three_amount_transaction: the records of the line, none, one or two.
_parse_three_amount_transaction(tdate, rest, line_idx) ==
  LET n            == Len(rest)
      dc           == _extract_category(SubSeq(rest, 1, n - 3))
      trans_amount == parse_amount(rest[n - 2])
      fee          == abs(parse_amount(rest[n - 1]))
      balance      == parse_amount(rest[n])
  IN (IF abs(trans_amount) > 0
      THEN <<CapitecRecord(tdate, dc[1], abs(trans_amount),
                           IF _is_credit_transaction(dc[1], dc[2]) THEN "credit" ELSE "debit",
                           dc[2], fee, balance, FALSE, line_idx)>>
      ELSE <<>>)
     \o (IF fee > 0
         THEN <<CapitecRecord(tdate, Append(dc[1], FeeMarker), fee, "debit",
                              FeesCategory, 0, balance, TRUE, line_idx)>>
         ELSE <<>>)

\* _parse_two_amount_transaction: the record of the line, or none.
_parse_two_amount_transaction(tdate, rest, line_idx) ==
  LET n            == Len(rest)
      dc           == _extract_category(SubSeq(rest, 1, n - 2))
      amount1      == parse_amount(rest[n - 1])
      amount2      == parse_amount(rest[n])
      trans_amount == IF MentionsFee(dc[1], dc[2]) THEN abs(amount1) ELSE amount1
  IN IF abs(trans_amount) > 0
     THEN <<CapitecRecord(tdate, dc[1], abs(trans_amount),
                          IF _is_credit_transaction(dc[1], dc[2]) THEN "credit" ELSE "debit",
                          dc[2], 0, amount2, FALSE, line_idx)>>
     ELSE <<>>

\* ^amount(?:\s+amount)?(?:\s+amount)?\s*$: one to three amounts and no more.
capitec_amounts_match(l) ==
  /\ l.date = NoDate
  /\ Len(l.toks) \in 1..3
  /\ \A k \in 1..Len(l.toks) : IsAmtTok(l.toks[k])

\* re.match(r'^[\d\s,\.]+$', next_line)
IsNumericLine(l) ==
  /\ l.date = NoDate
  /\ l.toks # <<>>
  /\ \A k \in 1..Len(l.toks) : \A c \in 1..Len(l.toks[k]) :
       l.toks[k][c] \in Digits \cup {",", "."}

\* The lookahead loop reads lines j with j < start_idx + CapitecLookaheadBound.
CapitecLookaheadBound == 5

\* _parse_multiline_transaction from index j with the description gathered
\* so far: the record of the window, or none.
RECURSIVE _parse_multiline_transaction(_, _, _, _, _)
_parse_multiline_transaction(tdate, desc_and_cat, ls, start_idx, j) ==
  IF ~(j < Len(ls) /\ j < start_idx + CapitecLookaheadBound) THEN <<>>
  ELSE LET next_line == ls[j + 1]
       IN IF LineText(next_line) = <<>>
          THEN _parse_multiline_transaction(tdate, desc_and_cat, ls, start_idx, j + 1)
          ELSE IF starts_with_date(next_line) THEN <<>>
          ELSE IF capitec_amounts_match(next_line)
          THEN LET t    == next_line.toks
                   dc   == _extract_category(desc_and_cat)
                   amt1 == parse_amount(t[1])
                   amt2 == IF Len(t) >= 2 THEN parse_amount(t[2]) ELSE 0
                   amt3 == IF Len(t) >= 3 THEN parse_amount(t[3]) ELSE 0
                   fee  == IF amt3 # 0 THEN abs(amt2) ELSE 0
                   balance == IF amt3 # 0 THEN amt3 ELSE IF amt2 # 0 THEN amt2 ELSE 0
               IN IF abs(amt1) > 0
                  THEN <<CapitecRecord(tdate, dc[1], abs(amt1),
                                       IF _is_credit_transaction(dc[1], dc[2]) THEN "credit" ELSE "debit",
                                       dc[2], fee, balance, FALSE, j)>>
                  ELSE _parse_multiline_transaction(tdate, desc_and_cat, ls, start_idx, j + 1)
          ELSE _parse_multiline_transaction(
                 tdate,
                 IF IsNumericLine(next_line) THEN desc_and_cat ELSE desc_and_cat \o next_line.toks,
                 ls, start_idx, j + 1)

\* _parse_transaction_line: the records of the window that starts at line
\* start_idx; none when the date does not parse.
_parse_transaction_line(ls, start_idx) ==
  LET l == ls[start_idx + 1]
  IN IF ~strptime(l.date).ok THEN <<>>
     ELSE IF pattern_3amt(l.toks)
     THEN _parse_three_amount_transaction(strptime(l.date).ord, l.toks, start_idx)
     ELSE IF pattern_2amt(l.toks)
     THEN _parse_two_amount_transaction(strptime(l.date).ord, l.toks, start_idx)
     ELSE _parse_multiline_transaction(strptime(l.date).ord, l.toks, ls, start_idx, start_idx + 1)

\* The while loop of _parse_capitec_transactions from index `at`.
RECURSIVE CapitecScan(_, _, _)
CapitecScan(ls, at, trs) ==
  IF at >= Len(ls) THEN trs
  ELSE IF capitec_is_header(ls[at + 1]) \/ ~date_match(ls[at + 1])
  THEN CapitecScan(ls, at + 1, trs)
  ELSE LET trans == _parse_transaction_line(ls, at)
       IN IF trans = <<>> THEN CapitecScan(ls, at + 1, trs)
          ELSE CapitecScan(ls, trans[1]._line_end + 1, trs \o trans)

_parse_capitec_transactions(text) == CapitecScan(text, 0, <<>>)

\* _sort_by_date_and_balance: sorted() with the key of _sort_by_balance.
_sort_by_date_and_balance(trs) == IF trs = <<>> THEN trs ELSE sorted(trs)

\* ------------------------------------------------------------------------
\* Specification: two parse_pdf calls in two threads
\* ------------------------------------------------------------------------
Threads == {1, 2}

ParserObjects == {1, 2}

ParserClasses == {"PDFParser", "CapitecPDFParser"}

\* The texts the two calls are given.
ThreadTexts == {<<l_three>>, <<l_anchor, l_amounts>>, <<l_received>>, <<l_text>>}

\* A thread about to call parse_pdf of the object obj of class cls on text.
\* local is the thread's own value: PDFParser's local 'transactions', or the
\* list _sort_by_date_and_balance returned and that is not stored yet.
NewThread(cls, obj, text) ==
  [cls |-> cls, obj |-> obj, text |-> text, pc |-> "parse", local |-> <<>>, ret |-> <<>>]

\* Two threads, each with its own text, on one parser object or on two.
\* __init__ leaves self.transactions empty.
InitThreads ==
  /\ \E cls \in ParserClasses, o2 \in ParserObjects, t1 \in ThreadTexts, t2 \in ThreadTexts :
       /\ t1 # t2
       /\ threads = [t \in Threads |-> IF t = 1 THEN NewThread(cls, 1, t1) ELSE NewThread(cls, o2, t2)]
  /\ self_transactions = [o \in ParserObjects |-> <<>>]
  /\ bank_name = "other"
  /\ doc = PlainDoc
  /\ lines = <<>>
  /\ i = 0
  /\ transactions = <<>>
  /\ pc = "threads"
  /\ result = <<>>
  /\ win = NoWin
  /\ warnings = 0
  /\ calls = <<>>
  /\ raised = NoException
  /\ parked = NoCall
  /\ fn_op = "off"
  /\ fn_arg = <<>>
  /\ fn_ret = <<>>
  /\ fn_ret2 = <<>>

ThreadUnchanged == UNCHANGED <<scanvars, fnvars, bank_name, doc, raised, parked>>

\* PDFParser.parse_pdf: transactions = self._parse_generic(text), a local.
PdfParse(t) ==
  /\ pc = "threads"
  /\ threads[t].cls = "PDFParser"
  /\ threads[t].pc = "parse"
  /\ threads' = [threads EXCEPT ![t].local = _parse_generic(threads[t].text), ![t].pc = "return"]
  /\ UNCHANGED self_transactions
  /\ ThreadUnchanged

\* PDFParser.parse_pdf: return self._sort_by_balance(transactions).
PdfReturn(t) ==
  /\ pc = "threads"
  /\ threads[t].cls = "PDFParser"
  /\ threads[t].pc = "return"
  /\ threads' = [threads EXCEPT ![t].ret = _sort_by_balance(threads[t].local), ![t].pc = "done"]
  /\ UNCHANGED self_transactions
  /\ ThreadUnchanged

\* CapitecPDFParser.parse_pdf:
\* self.transactions = self._parse_capitec_transactions(text).
CapitecParse(t) ==
  /\ pc = "threads"
  /\ threads[t].cls = "CapitecPDFParser"
  /\ threads[t].pc = "parse"
  /\ self_transactions' = [self_transactions EXCEPT ![threads[t].obj] = _parse_capitec_transactions(threads[t].text)]
  /\ threads' = [threads EXCEPT ![t].pc = "sort"]
  /\ ThreadUnchanged

\* CapitecPDFParser.parse_pdf: the right-hand side of
\* self.transactions = self._sort_by_date_and_balance(self.transactions)
\* reads the attribute and sorts what it read.
CapitecSort(t) ==
  /\ pc = "threads"
  /\ threads[t].cls = "CapitecPDFParser"
  /\ threads[t].pc = "sort"
  /\ threads' = [threads EXCEPT ![t].local = _sort_by_date_and_balance(self_transactions[threads[t].obj]), ![t].pc = "store"]
  /\ UNCHANGED self_transactions
  /\ ThreadUnchanged

\* CapitecPDFParser.parse_pdf: the assignment of the sorted list to
\* self.transactions.
CapitecStore(t) ==
  /\ pc = "threads"
  /\ threads[t].cls = "CapitecPDFParser"
  /\ threads[t].pc = "store"
  /\ self_transactions' = [self_transactions EXCEPT ![threads[t].obj] = threads[t].local]
  /\ threads' = [threads EXCEPT ![t].pc = "return"]
  /\ ThreadUnchanged

\* CapitecPDFParser.parse_pdf: return {'transactions': self.transactions, ...}.
CapitecReturn(t) ==
  /\ pc = "threads"
  /\ threads[t].cls = "CapitecPDFParser"
  /\ threads[t].pc = "return"
  /\ threads' = [threads EXCEPT ![t].ret = self_transactions[threads[t].obj], ![t].pc = "done"]
  /\ UNCHANGED self_transactions
  /\ ThreadUnchanged

NextThreads ==
  \E t \in Threads :
    \/ PdfParse(t)
    \/ PdfReturn(t)
    \/ CapitecParse(t)
    \/ CapitecSort(t)
    \/ CapitecStore(t)
    \/ CapitecReturn(t)

SpecThreads == InitThreads /\ [][NextThreads]_vars

\* The list the call returns when it runs alone.
Alone(cls, text) ==
  IF cls = "PDFParser"
  THEN _sort_by_balance(_parse_generic(text))
  ELSE _sort_by_date_and_balance(_parse_capitec_transactions(text))

\* C15: under every interleaving of two parse calls given different texts,
\* on two parser objects or on one, each call returns exactly the list it
\* returns when it runs alone.
C15_CallsIndependent ==
  \A t \in Threads :
    threads[t].pc = "done" => threads[t].ret = Alone(threads[t].cls, threads[t].text)

\* ------------------------------------------------------------------------
\* Claims on the windows of the scan
\* ------------------------------------------------------------------------
\* C21: a window takes its amounts from a line after its anchor that no line
\* starting with a date precedes or is; a window that finds no such line
\* takes nothing from the lines after its anchor; and the scan goes on
\* behind the amounts line, so that the line is never scanned as an anchor
\* or read by another window (the scan index never goes back).
C21_StopsAtNextAnchor ==
  [][/\ (NoTrailingAmounts /\ win'.kind = "multi") =>
          /\ i' > i + 1
          /\ \A k \in (i + 2)..i' : ~starts_with_date(lines[k])
          /\ AmountsLine(lines[i'])
          /\ win'.trans_amount = parse_amount(amount_groups(lines[i'])[1])
     /\ (NoTrailingAmounts /\ win'.kind # "multi") => i' = i + 1
     /\ Scan => i' > i]_vars

\* C21 witness: the scan has ended on a text with an anchor line, a second
\* anchor line right behind it and then an amounts line; the first window
\* logged a warning and the second took the amounts.
C21_Witness ==
  /\ pc = "done"
  /\ \E a \in 1..(Len(lines) - 2) :
       /\ lines[a] = l_anchor
       /\ lines[a + 1] = l_anchor
       /\ lines[a + 2] = l_amounts
       /\ win.kind = "multi"
       /\ win.line = a
  /\ warnings >= 1
  /\ Len(result) = 2

\* ------------------------------------------------------------------------
\* Specification: a statement parsed in the one-line layout, then in the
\* layout with the amounts on the line after the anchor
\* ------------------------------------------------------------------------
\* Postings written on one line, and lines the scan passes over.
LayoutLineSet ==
  { \* 21/10/2025 Monthly Admin Fee 5.00 395.00
   Line(<<21, 10, 2025>>, <<<<"M", "o", "n", "t", "h", "l", "y">>, <<"A", "d", "m", "i", "n">>, <<"F", "e", "e">>, <<"5", ".", "0", "0">>, <<"3", "9", "5", ".", "0", "0">>>>),
    \* 21/10/2025 SMS Notification Fees 1.50 393.50
   Line(<<21, 10, 2025>>, <<<<"S", "M", "S">>, <<"N", "o", "t", "i", "f", "i", "c", "a", "t", "i", "o", "n">>, <<"F", "e", "e", "s">>, <<"1", ".", "5", "0">>, <<"3", "9", "3", ".", "5", "0">>>>),
    \* 21/10/2025 Card Fee -7.50 400.00
   Line(<<21, 10, 2025>>, <<<<"C", "a", "r", "d">>, <<"F", "e", "e">>, <<"-", "7", ".", "5", "0">>, <<"4", "0", "0", ".", "0", "0">>>>),
    \* 20/10/2025 Payment Received: Invoice 44 1,200.00 5,200.00
   Line(<<20, 10, 2025>>, <<<<"P", "a", "y", "m", "e", "n", "t">>, <<"R", "e", "c", "e", "i", "v", "e", "d", ":">>, <<"I", "n", "v", "o", "i", "c", "e">>, <<"4", "4">>, <<"1", ",", "2", "0", "0", ".", "0", "0">>, <<"5", ",", "2", "0", "0", ".", "0", "0">>>>),
    \* 21/10/2025 Purchase 1,23.45 400.00
   Line(<<21, 10, 2025>>, <<<<"P", "u", "r", "c", "h", "a", "s", "e">>, <<"1", ",", "2", "3", ".", "4", "5">>, <<"4", "0", "0", ".", "0", "0">>>>),
    \* 21/10/2025 Purchase - 400.00
   Line(<<21, 10, 2025>>, <<<<"P", "u", "r", "c", "h", "a", "s", "e">>, <<"-">>, <<"4", "0", "0", ".", "0", "0">>>>),
    \* 21/10/2025 Transfer Money In 100.00 5,300.00
   Line(<<21, 10, 2025>>, <<<<"T", "r", "a", "n", "s", "f", "e", "r">>, <<"M", "o", "n", "e", "y">>, <<"I", "n">>, <<"1", "0", "0", ".", "0", "0">>, <<"5", ",", "3", "0", "0", ".", "0", "0">>>>),
    \* 21/10/2025 Authentication Fee 1.50 393.50
   Line(<<21, 10, 2025>>, <<<<"A", "u", "t", "h", "e", "n", "t", "i", "c", "a", "t", "i", "o", "n">>, <<"F", "e", "e">>, <<"1", ".", "5", "0">>, <<"3", "9", "3", ".", "5", "0">>>>),
    \* 22/10/2025 Cash Withdrawal 500.00 7.50 0.00
   Line(<<22, 10, 2025>>, <<<<"C", "a", "s", "h">>, <<"W", "i", "t", "h", "d", "r", "a", "w", "a", "l">>, <<"5", "0", "0", ".", "0", "0">>, <<"7", ".", "5", "0">>, <<"0", ".", "0", "0">>>>),
    \* 22/10/2025 Cash Withdrawal 500.00 7.50 400.00
   Line(<<22, 10, 2025>>, <<<<"C", "a", "s", "h">>, <<"W", "i", "t", "h", "d", "r", "a", "w", "a", "l">>, <<"5", "0", "0", ".", "0", "0">>, <<"7", ".", "5", "0">>, <<"4", "0", "0", ".", "0", "0">>>>),
    \* 22/10/2025 Cash Withdrawal 0.00 7.50 400.00
   Line(<<22, 10, 2025>>, <<<<"C", "a", "s", "h">>, <<"W", "i", "t", "h", "d", "r", "a", "w", "a", "l">>, <<"0", ".", "0", "0">>, <<"7", ".", "5", "0">>, <<"4", "0", "0", ".", "0", "0">>>>),
    \* 22/10/2025 Cash Withdrawal 500.00 0.00
   Line(<<22, 10, 2025>>, <<<<"C", "a", "s", "h">>, <<"W", "i", "t", "h", "d", "r", "a", "w", "a", "l">>, <<"5", "0", "0", ".", "0", "0">>, <<"0", ".", "0", "0">>>>),
    \* 22/10/2025 Transfer 10.00
   Line(<<22, 10, 2025>>, <<<<"T", "r", "a", "n", "s", "f", "e", "r">>, <<"1", "0", ".", "0", "0">>>>),
    \* 22/10/2025 Cash Withdrawal
   Line(<<22, 10, 2025>>, <<<<"C", "a", "s", "h">>, <<"W", "i", "t", "h", "d", "r", "a", "w", "a", "l">>>>),
    \* 31/02/2025 Purchase 10.00 20.00
   Line(<<31, 2, 2025>>, <<<<"P", "u", "r", "c", "h", "a", "s", "e">>, <<"1", "0", ".", "0", "0">>, <<"2", "0", ".", "0", "0">>>>)}

LayoutTexts == SeqsUpTo(LayoutLineSet, MaxLines) \ {<<>>}

\* The number of amounts a line ends in, three at most, with at least one
\* token of description left in front of them.
RECURSIVE TrailingAmounts(_, _)
TrailingAmounts(toks, k) ==
  IF k < 3 /\ k + 1 < Len(toks) /\ IsAmtTok(toks[Len(toks) - k])
  THEN TrailingAmounts(toks, k + 1)
  ELSE k

\* The line written in the other layout: the anchor with its description,
\* and the amounts on a line of their own.
SplitLine(l) ==
  LET k == IF l.date = NoDate THEN 0 ELSE TrailingAmounts(l.toks, 0)
      n == Len(l.toks)
  IN IF k = 0 THEN <<l>>
     ELSE <<Line(l.date, SubSeq(l.toks, 1, n - k)), Line(NoDate, SubSeq(l.toks, n - k + 1, n))>>

RECURSIVE SplitLayout(_)
SplitLayout(text) ==
  IF text = <<>> THEN <<>> ELSE SplitLine(Head(text)) \o SplitLayout(Tail(text))

InitLayouts ==
  /\ lines \in LayoutTexts
  /\ i = 0
  /\ transactions = <<>>
  /\ pc = "scan"
  /\ result = <<>>
  /\ win = NoWin
  /\ warnings = 0
  /\ calls = <<>>
  /\ bank_name = "capitec"
  /\ doc = PlainDoc
  /\ raised = NoException
  /\ parked = NoCall
  /\ threads = NoThreads
  /\ self_transactions = NoThreads
  /\ fn_op = "off"
  /\ fn_arg = <<>>
  /\ fn_ret = <<>>
  /\ fn_ret2 = <<>>

\* A second parse_pdf call, on the same statement in the other layout.
CallSplit ==
  /\ Len(calls) = 1
  /\ parse_pdf(SplitLayout(calls[1].text))

NextLayouts == Scan \/ Return \/ CallSplit

SpecLayouts == InitLayouts /\ [][NextLayouts]_vars

\* ------------------------------------------------------------------------
\* Claims on the layouts
\* ------------------------------------------------------------------------
\* The scan stands on an anchor line that ends in exactly two amounts.
TwoTrailingAmounts ==
  Anchored /\ ~pattern_3amt(rest_of_line) /\ pattern_2amt(rest_of_line)

\* C22: on a line that ends in exactly two amounts, the window's fee is the
\* first number when the description or the category holds 'fee'; without
\* the token the first number is the principal and no fee is taken; the
\* second number is the balance in both cases.
C22_TwoAmountFeeCheck ==
  [][TwoTrailingAmounts =>
       LET n      == Len(rest_of_line)
           first  == parse_amount(rest_of_line[n - 1])
           second == parse_amount(rest_of_line[n])
           dc     == extract_category(SubSeq(rest_of_line, 1, n - 2))
       IN /\ win'.kind = "2amt"
          /\ win'.balance = second
          /\ IF MentionsFee(dc[1], dc[2])
             THEN win'.fee = abs(first)
             ELSE win'.trans_amount = first /\ win'.fee = 0]_vars

\* The scan stands on an anchor line that ends in exactly one amount, which
\* is not zero.
SingleTrailingAmount ==
  /\ Anchored
  /\ Len(rest_of_line) >= 2
  /\ IsAmtTok(rest_of_line[Len(rest_of_line)])
  /\ ~IsAmtTok(rest_of_line[Len(rest_of_line) - 1])
  /\ parse_amount(rest_of_line[Len(rest_of_line)]) # 0

\* C23: a date-anchored line that ends in exactly one amount yields one
\* record whose amount is that number and whose balance is zero, whatever
\* lines follow it.
C23_SingleTrailingNumber ==
  [][SingleTrailingAmount =>
       /\ Len(transactions') = Len(transactions) + 1
       /\ transactions'[Len(transactions')].amount = abs(parse_amount(rest_of_line[Len(rest_of_line)]))
       /\ transactions'[Len(transactions')].balance = 0]_vars

\* ------------------------------------------------------------------------
\* Claims on extract_category and parse_amount as functions (SpecFn)
\* ------------------------------------------------------------------------
\* The number of characters of a label: its words and the spaces between.
RECURSIVE LabelLen(_)
LabelLen(cat) ==
  IF cat = <<>> THEN 0
  ELSE Len(Head(cat)) + (IF Len(cat) > 1 THEN 1 ELSE 0) + LabelLen(Tail(cat))

\* What a longest-suffix match against the vocabulary voc returns.
LongestSuffixMatch(voc, text_str) ==
  LET hits == {k \in 1..Len(voc) : EndsWith(text_str, voc[k])}
  IN IF hits = {} THEN {<<text_str, None>>}
     ELSE {<<CutSuffix(text_str, voc[k]), voc[k]>> :
             k \in {h \in hits : \A g \in hits : LabelLen(voc[h]) >= LabelLen(voc[g])}}

\* C24: extract_category splits off the longest label of the vocabulary that
\* the text ends in, and returns the text unchanged with no category when it
\* ends in no label; so does _extract_category of CapitecPDFParser with its
\* vocabulary.
C24_LongestSuffix ==
  fn_op = "extract_category" =>
    /\ fn_ret \in LongestSuffixMatch(categories, fn_arg.description)
    /\ _extract_category(fn_arg.description) \in LongestSuffixMatch(CAPITEC_CATEGORIES, fn_arg.description)

\* C24 witness: 'Salary Other Income' was split into 'Salary' and the label
\* 'Other Income'.
C24_Witness ==
  /\ fn_op = "extract_category"
  /\ fn_arg.description = <<W_Salary, W_Other, W_Income>>
  /\ fn_ret = << <<W_Salary>>, <<W_Other, W_Income>> >>

\* A token written with the characters of a number that is no amount as the
\* statement prints it ('1,23.45'), or the dash of an empty column.
MalformedToken(t) ==
  /\ t # <<>>
  /\ \A p \in 1..Len(t) : t[p] \in Digits \cup {",", ".", "-"}
  /\ ~IsAmtTok(t)

\* The scan stands on an anchor line whose last token is a balance and whose
\* token in the principal's place, before it, is malformed.
MalformedPrincipal ==
  /\ Anchored
  /\ Len(rest_of_line) >= 3
  /\ IsAmtTok(rest_of_line[Len(rest_of_line)])
  /\ MalformedToken(rest_of_line[Len(rest_of_line) - 1])

\* C25: parse_amount gives zero for a malformed token, and a window whose
\* principal token is malformed emits no record.
C25_MalformedToken ==
  [][MalformedPrincipal =>
       /\ parse_amount(rest_of_line[Len(rest_of_line) - 1]) = 0
       /\ transactions' = transactions]_vars

\* ------------------------------------------------------------------------
\* Claims on the references and on the order of the returned list
\* ------------------------------------------------------------------------
\* A record without the sequence number of its reference.
WithoutSeq(r) == [r EXCEPT !.reference.seq = 0]

\* C26: the sequence number in a record's reference is the number of records
\* emitted before it in the run, so no two records of a run share a
\* reference; a window changes no record emitted before it; and the records
\* of a window are the same, but for the sequence number, whatever windows
\* the run handled before it (the last line parsed alone and parsed behind
\* another posting).
C26_ReferenceSequence ==
  /\ \A k \in 1..Len(transactions) : transactions[k].reference.seq = k - 1
  /\ \A a, b \in 1..Len(transactions) :
       a < b => /\ transactions[a].reference.seq < transactions[b].reference.seq
                /\ transactions[a].reference # transactions[b].reference
  /\ \A a, b \in 1..Len(calls) :
       (Len(calls[a].text) = 2 /\ calls[b].text = <<calls[a].text[2]>>
          /\ EmittingLine(calls[a].text[1])) =>
         {WithoutSeq(calls[b].result[k]) : k \in 1..Len(calls[b].result)}
           \subseteq {WithoutSeq(calls[a].result[k]) : k \in 1..Len(calls[a].result)}

\* C26 witness: a run has emitted a principal record and its fee record and
\* then a record of a second window, and that window's line was also parsed
\* alone in another run.
C26_Witness ==
  /\ Len(transactions) = 3
  /\ transactions[2].reference.fee
  /\ transactions[3].reference.seq = 2
  /\ \E b \in 1..Len(calls) : calls[b].text = <<lines[2]>> /\ calls[b].result # <<>>

\* p is a principal record and f the fee record emitted with it.
ParentAndFee(p, f) ==
  /\ ~p.reference.fee
  /\ f.reference.fee
  /\ f.reference.seq = p.reference.seq + 1
  /\ f.date = p.date
  /\ f.amount = p.fee
  /\ f.description = Append(p.description, FeeMarker)

\* C27: in the returned list every fee record whose parent was emitted
\* stands immediately behind that parent, whatever other records have the
\* same date and balance.
C27_FeeFollowsParent ==
  pc = "done" =>
    \A n \in 2..Len(transactions) :
      ParentAndFee(transactions[n - 1], transactions[n]) =>
        \E k \in 1..(Len(result) - 1) :
          result[k] = transactions[n - 1] /\ result[k + 1] = transactions[n]

\* C27 witness: two windows with the same date and balance each emitted a
\* parent and a fee record, and the four records were returned.
C27_Witness ==
  /\ pc = "done"
  /\ Len(result) = 4
  /\ \A k \in 1..4 : result[k].date = result[1].date /\ result[k].balance = result[1].balance
  /\ ParentAndFee(result[1], result[2])
  /\ ParentAndFee(result[3], result[4])

\* How often the record r stands in the list s.
Occurrences(s, r) == Cardinality({k \in 1..Len(s) : s[k] = r})

\* C28: the list _sort_by_balance returns holds the records of the scanned
\* list, each as often as the scanned list holds it and none changed, and
\* _sort_by_balance applied to the returned list returns it unchanged.
C28_SortOnlyReorders ==
  pc = "done" =>
    /\ Len(result) = Len(transactions)
    /\ \A k \in 1..Len(transactions) :
         Occurrences(result, transactions[k]) = Occurrences(transactions, transactions[k])
    /\ _sort_by_balance(result) = result

\* C28 witness: a list of at least three records was returned in another
\* order than it was scanned in.
C28_Witness ==
  /\ pc = "done"
  /\ Len(result) >= 3
  /\ result # transactions

\* A posting on one line: a date that exists, a description of words, and
\* one, two or three amounts at the end.
Posting(l) ==
  /\ l.date # NoDate
  /\ strptime(l.date).ok
  /\ ~is_header(l)
  /\ TrailingAmounts(l.toks, 0) >= 1
  /\ \A k \in 1..(Len(l.toks) - TrailingAmounts(l.toks, 0)) :
       ~MalformedToken(l.toks[k]) /\ FindAmts(<<l.toks[k]>>) = <<>>

\* C29: a statement of postings parsed with the amounts on the line after
\* each anchor gives the list it gives with the amounts at the end of the
\* anchor line.
C29_LayoutsEquivalent ==
  (pc = "done" /\ Len(calls) = 2 /\ \A k \in 1..Len(calls[1].text) : Posting(calls[1].text[k])) =>
    calls[2].result = calls[1].result

\* A well-formed posting: a date that exists, a description, and two or
\* three amounts at the end, the first of them not zero.
WellFormedPosting(l) ==
  /\ l.date # NoDate
  /\ strptime(l.date).ok
  /\ TrailingAmounts(l.toks, 0) \in {2, 3}
  /\ parse_amount(l.toks[Len(l.toks) - TrailingAmounts(l.toks, 0) + 1]) # 0

\* C30: the scan emits at least one record when it stands on a well-formed
\* posting, whatever words its description holds.
C30_NoPostingLost ==
  [][(InLoop /\ WellFormedPosting(cur)) => Len(transactions') > Len(transactions)]_vars

====
